---- MODULE Spec2Model ----
(***************************************************************************)
(* Control-plane orchestrator of the panel: ServerService over the         *)
(* inventory store (Node, Allocation, Server, Backup rows), and the node   *)
(* agent: Manager (registry of ServerState, health and metrics loops) and  *)
(* its API.  Every repository call, node-client call, lock operation and   *)
(* runtime call is one atomic step of the request or goroutine that makes  *)
(* it; requests and goroutines run concurrently.                           *)
(***************************************************************************)
EXTENDS Integers, FiniteSets, Sequences, TLC

(* ------------------------------ bounds -------------------------------- *)
NumProcs == 2            \* request handlers that may run concurrently
MaxServers == 2          \* server rows ever inserted by Create in one run
NumAllocations == 2      \* allocations (ports) of the node
MaxLimit == 2            \* largest memory/disk/cpu limit a request asks for
MaxFaults == 1           \* repository / transport failures injected in a run
NodeMemoryTotal == 2     \* Node.MemoryTotal of the node
NodeMemoryOveralloc == 75 \* Node.MemoryOveralloc (percent) of the node
NodeDiskTotal == 3       \* Node.DiskTotal of the node
NodeDiskOveralloc == 0   \* Node.DiskOveralloc (percent) of the node
NodeCPUTotal == 2        \* Node.CPUTotal of the node
NumThreads == 2          \* agent goroutines serving API requests concurrently
MaxContainers == 2       \* containers the agent ever creates in one run
MaxAllocs == 2           \* allocations in the ServerConfig of an agent CreateServer
MaxNodes == 2            \* node rows ever inserted in one run
MaxNewAllocations == 1   \* allocation rows CreateAllocations inserts in one run

Procs == 1..NumProcs
ServerIds == 1..MaxServers
AllocIds == 1..(NumAllocations + MaxNewAllocations)
NodeIds == 1..MaxNodes
Limits == 1..MaxLimit
\* The goroutines of the agent: those serving API requests, the one main
\* starts for the health loop and the one it starts for the metrics loop
ApiThreads == 1..NumThreads
HealthThread == NumThreads + 1
MetricsThread == NumThreads + 2
AgentThreads == 1..(NumThreads + 2)
ContainerIds == 1..MaxContainers

(* ------------------------- entities/server.go ------------------------- *)
ServerStatusInstalling == "installing"
ServerStatusStarting == "starting"
ServerStatusRunning == "running"
ServerStatusStopping == "stopping"
ServerStatusStopped == "stopped"
ServerStatusRestarting == "restarting"
ServerStatusError == "error"
ServerStatusSuspended == "suspended"

ServerStatuses ==
  { ServerStatusInstalling, ServerStatusStarting, ServerStatusRunning,
    ServerStatusStopping, ServerStatusStopped, ServerStatusRestarting,
    ServerStatusError, ServerStatusSuspended }

\* A server counts as running when it is running or stopped
IsRunningOrStopped(s) ==
  s.Status \in {ServerStatusRunning, ServerStatusStopped}

\* IsRunning comparing against the wrong status constant
IsRunningWrongStatus(s) == s.Status = ServerStatusStarting

\* Server.IsRunning
IsRunning(s) == s.Status = ServerStatusRunning

\* Server.CanStart (defined by the entity, used by no operation)
CanStart(s) == s.Status = ServerStatusStopped /\ ~s.Suspended

\* AvailableMemory that forgets what is already allocated
AvailableMemoryIgnoresAllocated(n) ==
  n.MemoryTotal + ((n.MemoryTotal * n.MemoryOveralloc) \div 100)

\* Node.AvailableMemory; the division truncates (operands are non-negative)
AvailableMemory(n) ==
  LET maxMemory == n.MemoryTotal + ((n.MemoryTotal * n.MemoryOveralloc) \div 100)
  IN  maxMemory - n.MemoryAllocated

\* Disk left on the node, one unit held back
AvailableDiskStrict(n) ==
  (n.DiskTotal + ((n.DiskTotal * n.DiskOveralloc) \div 100)) - n.DiskAllocated - 1

\* Node.AvailableDisk
AvailableDisk(n) ==
  LET maxDisk == n.DiskTotal + ((n.DiskTotal * n.DiskOveralloc) \div 100)
  IN  maxDisk - n.DiskAllocated

(* ------------------------ services: error values ----------------------- *)
ErrNone == "nil"
ErrServerNotFound == "server not found"
ErrServerSuspended == "server is suspended"
ErrServerAlreadyRunning == "server is already running"
ErrServerNotRunning == "server is not running"
ErrInsufficientResources == "insufficient resources on node"
ErrNoAvailableAllocation == "no available allocation"
ErrNodeNotFound == "node not found"
ErrBackupLimitReached == "backup limit reached"
ErrRepository == "repository error"
ErrNodeHasServers == "cannot delete node with active servers"
ErrRemote == "remote failure"
ErrLocationNotFound == "location not found"
ErrAllocationNotFound == "allocation not found"
ErrAllocationAssigned == "cannot delete allocation assigned to a server"
ErrNoAvailablePorts == "no available ports in range"

(* ----------------------- handlers: error bodies ------------------------ *)
HandlerNodeNotFound == "Node not found"
HandlerInternalServerError == "Internal Server Error"
HandlerServerNotFound == "Server not found"
HandlerUpdateFailed == "Failed to update server"
HandlerDeleteRunning == "Cannot delete running server. Stop it first."
HandlerDeleteFailed == "Failed to delete server"
HandlerAlreadyRunning == "Server is already running"
HandlerAlreadyStopped == "Server is already stopped"
HandlerLocationNotFound == "Location not found"
HandlerFQDNExists == "Node with this FQDN already exists"
HandlerCreateNodeFailed == "Failed to create node"
HandlerUpdateNodeFailed == "Failed to update node"
HandlerCountFailed == "Failed to check node usage"
HandlerNodeHasServers == "Cannot delete node that has servers assigned to it"
HandlerDeleteNodeFailed == "Failed to delete node"

\* The CPUTotal Handler.CreateNode gives every node
DefaultCPUTotal == 100

BackupStatusPending == "pending"
BackupStatusFailed == "failed"

(* ------------------------------- state -------------------------------- *)
VARIABLES
  nodes,          \* nodes table: node id -> Node row
  allocations,    \* allocations table: allocation id -> Allocation row
  servers,        \* servers table: server id -> Server row (existing rows only)
  nextServerId,   \* ids handed out by serverRepo.Create so far, plus one
  nextNodeId,     \* ids given to inserted Node rows so far, plus one
  nextAllocationId, \* ids given to inserted Allocation rows so far, plus one
  pc,             \* per request handler: the call it is about to make
  loc,            \* per request handler: the locals of its operation
  lastRet,        \* what the step just taken returned to its caller, if it returned
  faults,         \* failures injected so far
  unassigned,     \* per server id: Unassign calls Delete applied for it (capped)
  released,       \* per server id: totals decrements Delete applied for it (capped)
  agent,          \* node agent: server id -> ServerState of the registry and its container
  suspendActive,  \* per server id: a Suspend succeeded and no Unsuspend has since
  backups,        \* backups table: the Backup rows in insertion order (id = index)
  threads,        \* agent: per goroutine, the call it is about to make and its locals
  mu,             \* agent: Manager.mu, the lock of the registry
  smu,            \* agent: ServerState.mu of the entry of each container id
  nextContainer,  \* agent: the id the runtime gives the next container it creates
  alog,           \* agent: what the step just taken returned and logged, if it returned
  config          \* agent: its configuration (the token of the node)

agentVars == << threads, mu, smu, nextContainer, alog, config >>

idVars == << nextNodeId, nextAllocationId >>

vars == << nodes, allocations, servers, nextServerId, pc, loc, lastRet, faults,
           unassigned, released, agent, suspendActive, backups, agentVars,
           idVars >>

\* The nil reference (a nil *uuid.UUID, an id of no row)
Nil == 0
NoServer == Nil
NoAllocation == Nil
NoNode == [ID |-> 0, FQDN |-> "", MemoryTotal |-> 0, MemoryAllocated |-> 0,
           MemoryOveralloc |-> 0, DiskTotal |-> 0, DiskAllocated |-> 0,
           DiskOveralloc |-> 0, CPUTotal |-> 0, CPUAllocated |-> 0]
NoRow == [ID |-> 0, Status |-> "", Suspended |-> FALSE, NodeID |-> 0,
          AllocationID |-> 0, MemoryLimit |-> 0, DiskLimit |-> 0, CPULimit |-> 0,
          LastStartedAt |-> FALSE, BackupLimit |-> 0]
NoReq == [NodeID |-> 0, MemoryLimit |-> 0, DiskLimit |-> 0, CPULimit |-> 0]
NoLoc == [op |-> "", sid |-> NoServer, node |-> NoNode, server |-> NoRow,
          allocation |-> NoAllocation, req |-> NoReq, issued |-> {}, failed |-> {},
          backup |-> 0, port |-> 0, batch |-> {}]
NoRet == [op |-> "", err |-> ErrNone]

\* CreateServerRequest, validated by the caller (limits are positive); the
\* requests tried ask for more than the minimum of at most one resource
Requests ==
  {r \in [NodeID : NodeIds, MemoryLimit : Limits, DiskLimit : Limits,
          CPULimit : Limits] :
     /\ r.MemoryLimit = 1 \/ r.DiskLimit = 1
     /\ r.MemoryLimit = 1 \/ r.CPULimit = 1
     /\ r.DiskLimit = 1 \/ r.CPULimit = 1}

\* Port of an allocation: the batch is created on consecutive ports
Port(a) == 25564 + a

\* FQDN of the node of the initial inventory, and another one
NodeFQDN == "node1.example.com"
FQDNs == {NodeFQDN, "node2.example.com"}

InitNode(n) ==
  [ID |-> n, FQDN |-> NodeFQDN,
   MemoryTotal |-> NodeMemoryTotal, MemoryAllocated |-> 0,
   MemoryOveralloc |-> NodeMemoryOveralloc,
   DiskTotal |-> NodeDiskTotal, DiskAllocated |-> 0,
   DiskOveralloc |-> NodeDiskOveralloc,
   CPUTotal |-> NodeCPUTotal, CPUAllocated |-> 0]

\* Server.BackupLimit of a row inserted without one (gorm default)
DefaultBackupLimit == 2

\* The Server row Create builds from the request and the chosen allocation
NewServer(id, req, allocation) ==
  [ID |-> id, Status |-> ServerStatusInstalling, Suspended |-> FALSE,
   NodeID |-> req.NodeID, AllocationID |-> allocation,
   MemoryLimit |-> req.MemoryLimit, DiskLimit |-> req.DiskLimit,
   CPULimit |-> req.CPULimit, LastStartedAt |-> FALSE,
   BackupLimit |-> DefaultBackupLimit]

\* A server created earlier, whose status has moved on since
ExistingServer(status) ==
  [NewServer(1, [NodeID |-> 1, MemoryLimit |-> 1, DiskLimit |-> 1, CPULimit |-> 1], 1)
     EXCEPT !.Status = status, !.Suspended = (status = ServerStatusSuspended)]

\* The Allocation rows of the node of the initial inventory, on consecutive
\* ports, the first one bound to `sid` when there is such a server
InitAllocations(sid) ==
  [a \in 1..NumAllocations |->
     [ID |-> a, NodeID |-> 1, Port |-> Port(a),
      ServerID |-> IF a = 1 THEN sid ELSE NoServer,
      IsPrimary |-> (a = 1 /\ sid # NoServer)]]

\* An id the agent's registry has no ServerState for
NoState == [Status |-> "", Container |-> "", ContainerID |-> 0, StartedAt |-> FALSE,
            Stats |-> 0, Bindings |-> {}]

\* Manager.LoadServers: the ServerState the agent tracks for a container it
\* found at startup: the id and the state of the container, no start time and
\* no stats
LoadServers(containerID, containerState) ==
  [NoState EXCEPT !.Status = containerState, !.Container = containerState,
                  !.ContainerID = containerID]

\* The ServerState loaded for the server created earlier: its container runs
\* if and only if the server is running
ExistingState(status) ==
  LoadServers(1, IF status = ServerStatusRunning THEN "running" ELSE "exited")

\* Manager.mu and a ServerState.mu when nobody holds them; a goroutine that
\* runs nothing; nothing returned or logged
NoThread == 0
NoLock == [writer |-> NoThread, readers |-> {}]
NoCall == [pc |-> "idle", op |-> "", sid |-> 0, cid |-> 0, allocs |-> << >>,
           snapshot |-> << >>, seen |-> "", warned |-> {}, updated |-> {}]

\* The token of the node in the agent's configuration
NodeToken == "secret"
Tokens == {"", NodeToken, "Bearer " \o NodeToken, "guess", "Bearer "}
NoLog == [op |-> "", sid |-> 0, err |-> "nil", warned |-> {}, updated |-> {}]

\* Requests idle, nothing returned yet, no failure injected
InitRequests ==
  /\ pc = [p \in Procs |-> "idle"]
  /\ loc = [p \in Procs |-> NoLoc]
  /\ lastRet = NoRet
  /\ faults = 0
  /\ unassigned = [s \in ServerIds |-> 0]
  /\ released = [s \in ServerIds |-> 0]
  /\ backups = << >>
  /\ threads = [t \in AgentThreads |-> NoCall]
  /\ mu = NoLock
  /\ smu = [c \in ContainerIds |-> NoThread]
  /\ alog = NoLog

\* The agent's configuration holds one of `tokens`
InitConfig(tokens) == config \in {[Token |-> k] : k \in tokens}

\* An empty inventory: one node, its allocations unbound, no server
InitEmptyTables ==
  /\ nodes = (1 :> InitNode(1))
  /\ allocations = InitAllocations(NoServer)
  /\ servers = << >>
  /\ nextServerId = 1
  /\ nextNodeId = 2
  /\ nextAllocationId = NumAllocations + 1
  /\ agent = [s \in ServerIds |-> NoState]
  /\ suspendActive = [s \in ServerIds |-> FALSE]
  /\ nextContainer = 1
  /\ InitRequests

InitEmpty == InitEmptyTables /\ InitConfig({NodeToken})

\* An inventory of one node and one server, the server in one of `statuses`,
\* bound to the first allocation and accounted for in the node's totals
InitInventoryTables(statuses) ==
  /\ nodes = (1 :> [InitNode(1) EXCEPT !.MemoryAllocated = 1,
                                       !.DiskAllocated = 1,
                                       !.CPUAllocated = 1])
  /\ allocations = InitAllocations(1)
  /\ \E status \in statuses :
       /\ servers = (1 :> ExistingServer(status))
       /\ agent = [s \in ServerIds |->
                     IF s = 1 THEN ExistingState(status) ELSE NoState]
       /\ suspendActive = [s \in ServerIds |->
                             s = 1 /\ status = ServerStatusSuspended]
  /\ nextServerId = 2
  /\ nextNodeId = 2
  /\ nextAllocationId = NumAllocations + 1
  /\ nextContainer = 2
  /\ InitRequests

InitInventory(statuses) == InitInventoryTables(statuses) /\ InitConfig({NodeToken})

\* The inventory is empty or holds a stopped or running server
Init == InitEmpty \/ InitInventory({ServerStatusStopped, ServerStatusRunning})

\* The inventory holds one server, in any status
InitLifecycle == InitInventory(ServerStatuses)

(* --------------------------- repositories ----------------------------- *)
\* Outcomes of one repository or node-client call: TRUE = nil error
Outcomes == IF faults < MaxFaults THEN {TRUE, FALSE} ELSE {TRUE}
Fault(ok) == faults' = IF ok THEN faults ELSE faults + 1

\* Outcomes of the write that records a failed node call: the store may refuse
\* it even when the failed call was the last failure the run otherwise injects
RecordOutcomes == IF faults <= MaxFaults THEN {TRUE, FALSE} ELSE {TRUE}

Exists(sid) == sid \in DOMAIN servers

\* serverRepo.Create: inserts the row under a fresh id
InsertServer(row) ==
  [s \in DOMAIN servers \cup {row.ID} |-> IF s = row.ID THEN row ELSE servers[s]]

\* serverRepo.Delete
RemoveServer(sid) == [s \in DOMAIN servers \ {sid} |-> servers[s]]

\* serverRepo.UpdateStatus: writes the status column of the row, if it exists
UpdateStatus(sid, status) ==
  IF Exists(sid) THEN [servers EXCEPT ![sid].Status = status] ELSE servers

\* serverRepo.Update: writes every column of the row, if it exists
UpdateServer(row) ==
  IF Exists(row.ID) THEN [servers EXCEPT ![row.ID] = row] ELSE servers

\* h.db.Save(&server): writes every column of the row and, when no row has
\* its primary key, inserts it
SaveServer(row) ==
  [s \in DOMAIN servers \cup {row.ID} |-> IF s = row.ID THEN row ELSE servers[s]]

\* serverRepo.Suspend: marks the row suspended (flag and status)
SuspendServer(sid) ==
  IF Exists(sid)
  THEN [servers EXCEPT ![sid].Suspended = TRUE, ![sid].Status = ServerStatusSuspended]
  ELSE servers

\* serverRepo.Unsuspend: clears the mark; the server is stopped again
UnsuspendServer(sid) ==
  IF Exists(sid)
  THEN [servers EXCEPT ![sid].Suspended = FALSE, ![sid].Status = ServerStatusStopped]
  ELSE servers

\* allocationRepo.GetAvailableByNodeID: the node's unbound allocations,
\* lowest port first
RECURSIVE SortedByPort(_)
SortedByPort(S) ==
  IF S = {} THEN << >>
  ELSE LET a == CHOOSE x \in S :
                  \A y \in S : allocations[x].Port <= allocations[y].Port
       IN  << a >> \o SortedByPort(S \ {a})

GetAvailableByNodeID(nid) ==
  SortedByPort({a \in DOMAIN allocations :
                  /\ allocations[a].NodeID = nid
                  /\ allocations[a].ServerID = NoServer})

\* allocationRepo.AssignToServer: writes the row, if it exists
AssignToServer(a, sid, isPrimary) ==
  IF a \in DOMAIN allocations
  THEN [allocations EXCEPT ![a].ServerID = sid, ![a].IsPrimary = isPrimary]
  ELSE allocations

\* allocationRepo.Unassign
Unassign(a) ==
  IF a \in DOMAIN allocations
  THEN [allocations EXCEPT ![a].ServerID = NoServer, ![a].IsPrimary = FALSE]
  ELSE allocations

\* nodeRepo.UpdateResources
UpdateResources(nid, memoryAlloc, diskAlloc, cpuAlloc) ==
  IF nid \in DOMAIN nodes
  THEN [nodes EXCEPT ![nid].MemoryAllocated = memoryAlloc,
                     ![nid].DiskAllocated = diskAlloc,
                     ![nid].CPUAllocated = cpuAlloc]
  ELSE nodes

\* nodeRepo.Delete
RemoveNode(nid) == [n \in DOMAIN nodes \ {nid} |-> nodes[n]]

\* nodeRepo.Create
InsertNode(row) ==
  [n \in DOMAIN nodes \cup {row.ID} |-> IF n = row.ID THEN row ELSE nodes[n]]

\* nodeRepo.Update: writes every column of the row, if it exists
UpdateNode(row) ==
  IF row.ID \in DOMAIN nodes THEN [nodes EXCEPT ![row.ID] = row] ELSE nodes

\* h.db.Save(&node): writes every column of the row and, when no row has its
\* primary key, inserts it
SaveNode(row) == InsertNode(row)

\* allocationRepo.IsPortAvailable: no Allocation row of the node has the port
IsPortAvailable(nid, port) ==
  \A a \in DOMAIN allocations :
    ~(allocations[a].NodeID = nid /\ allocations[a].Port = port)

\* allocationRepo.CreateBatch: one row per port, under fresh consecutive ids
RECURSIVE CreateBatch(_, _, _, _)
CreateBatch(rows, nid, ports, id) ==
  IF ports = {} THEN rows
  ELSE LET port == CHOOSE x \in ports : \A y \in ports : x <= y
           row == [ID |-> id, NodeID |-> nid, Port |-> port,
                   ServerID |-> NoServer, IsPrimary |-> FALSE]
           more == [a \in DOMAIN rows \cup {id} |->
                      IF a = id THEN row ELSE rows[a]]
       IN CreateBatch(more, nid, ports \ {port}, id + 1)

\* allocationRepo.Delete
RemoveAllocation(a) == [x \in DOMAIN allocations \ {a} |-> allocations[x]]

\* serverRepo.CountByNodeID
CountByNodeID(nid) ==
  Cardinality({s \in DOMAIN servers : servers[s].NodeID = nid})

(* ----------------------------- node agent ----------------------------- *)
\* The agent's registry tracks the server
Registered(sid) == agent[sid] # NoState

\* Outcomes of one node-client call for a server: the agent rejects a call
\* for a server its registry does not track
NodeOutcomes(sid) == IF Registered(sid) THEN Outcomes ELSE {FALSE}
NodeFault(sid, ok) ==
  faults' = IF ok \/ ~Registered(sid) THEN faults ELSE faults + 1

\* Manager.StartServer: the container is started, the ServerState is running
ManagerStartServer(sid) ==
  [agent EXCEPT ![sid].Status = "running", ![sid].Container = "running",
                ![sid].StartedAt = TRUE]

\* Manager.StopServer: the container is stopped, the ServerState is stopped
ManagerStopServer(sid) ==
  [agent EXCEPT ![sid].Status = "stopped", ![sid].Container = "exited",
                ![sid].StartedAt = FALSE]

\* Manager.KillServer: the container is killed, the ServerState is stopped
ManagerKillServer(sid) ==
  [agent EXCEPT ![sid].Status = "stopped", ![sid].Container = "exited",
                ![sid].StartedAt = FALSE]

\* Manager.RestartServer: the container is restarted, the ServerState is running
ManagerRestartServer(sid) ==
  [agent EXCEPT ![sid].Status = "running", ![sid].Container = "running",
                ![sid].StartedAt = TRUE]

(* ------------------------- request bookkeeping ------------------------ *)
Goto(p, label) == pc' = [pc EXCEPT ![p] = label]

\* The step taken returns nothing to a caller
NoReturn == lastRet' = NoRet

\* The operation of p returns err to its caller
Return(p, err) ==
  /\ pc' = [pc EXCEPT ![p] = "idle"]
  /\ lastRet' = [op |-> loc[p].op, err |-> err]
  /\ loc' = [loc EXCEPT ![p] = NoLoc]

Bump(n) == IF n < 2 THEN n + 1 ELSE n

(* ------------------------ ServerService.Create ------------------------ *)
CreatesInFlight ==
  {q \in Procs : pc[q] \in {"create_allocs", "create_insert"}}

\* nodeRepo.GetByID and the two capacity checks
CreateGetNode(p, req) ==
  /\ pc[p] = "idle"
  /\ nextServerId + Cardinality(CreatesInFlight) <= MaxServers
  /\ \E ok \in Outcomes :
       /\ Fault(ok)
       /\ LET node == nodes[req.NodeID]
              l == [NoLoc EXCEPT !.op = "Create", !.req = req]
          IN IF ~ok \/ req.NodeID \notin DOMAIN nodes
             THEN /\ pc' = pc
                  /\ loc' = loc
                  /\ lastRet' = [op |-> "Create", err |-> ErrNodeNotFound]
             ELSE IF AvailableMemory(node) < req.MemoryLimit
                     \/ AvailableDisk(node) < req.DiskLimit
             THEN /\ pc' = pc
                  /\ loc' = loc
                  /\ lastRet' = [op |-> "Create", err |-> ErrInsufficientResources]
             ELSE /\ Goto(p, "create_allocs")
                  /\ loc' = [loc EXCEPT ![p] = [l EXCEPT !.node = node]]
                  /\ NoReturn
  /\ UNCHANGED << nodes, allocations, servers, nextServerId, unassigned, released >>
  /\ UNCHANGED << agent, suspendActive >>
  /\ UNCHANGED << backups, agentVars, idVars >>

\* allocationRepo.GetAvailableByNodeID; allocation := allocations[0]
CreateGetAllocations(p) ==
  /\ pc[p] = "create_allocs"
  /\ \E ok \in Outcomes :
       /\ Fault(ok)
       /\ LET avail == GetAvailableByNodeID(loc[p].req.NodeID)
          IN IF ~ok \/ Len(avail) = 0
             THEN Return(p, ErrNoAvailableAllocation)
             ELSE /\ Goto(p, "create_insert")
                  /\ loc' = [loc EXCEPT ![p].allocation = avail[1]]
                  /\ NoReturn
  /\ UNCHANGED << nodes, allocations, servers, nextServerId, unassigned, released >>
  /\ UNCHANGED << agent, suspendActive >>
  /\ UNCHANGED << backups, agentVars, idVars >>

\* serverRepo.Create
CreateInsertServer(p) ==
  /\ pc[p] = "create_insert"
  /\ \E ok \in Outcomes :
       /\ Fault(ok)
       /\ IF ~ok
          THEN /\ Return(p, ErrRepository)
               /\ UNCHANGED << servers, nextServerId >>
          ELSE /\ servers' = InsertServer(NewServer(nextServerId, loc[p].req,
                                                    loc[p].allocation))
               /\ nextServerId' = nextServerId + 1
               /\ Goto(p, "create_assign")
               /\ loc' = [loc EXCEPT ![p].sid = nextServerId]
               /\ NoReturn
  /\ UNCHANGED << nodes, allocations, unassigned, released >>
  /\ UNCHANGED << agent, suspendActive >>
  /\ UNCHANGED << backups, agentVars, idVars >>

\* allocationRepo.AssignToServer(allocation.ID, server.ID, true)
CreateAssignAllocation(p) ==
  /\ pc[p] = "create_assign"
  /\ \E ok \in Outcomes :
       /\ Fault(ok)
       /\ IF ~ok
          THEN /\ Return(p, ErrRepository)
               /\ UNCHANGED allocations
          ELSE /\ allocations' = AssignToServer(loc[p].allocation, loc[p].sid, TRUE)
               /\ Goto(p, "create_resources")
               /\ UNCHANGED loc
               /\ NoReturn
  /\ UNCHANGED << nodes, servers, nextServerId, unassigned, released >>
  /\ UNCHANGED << agent, suspendActive >>
  /\ UNCHANGED << backups, agentVars, idVars >>

\* The totals Create writes: the node as read at the start, plus the request
CreateTotals(node, req) ==
  [memory |-> node.MemoryAllocated + req.MemoryLimit,
   disk |-> node.DiskAllocated + req.DiskLimit,
   cpu |-> node.CPUAllocated + req.CPULimit]

\* nodeRepo.UpdateResources(node.*Allocated + req.*Limit); return server, nil
CreateUpdateResources(p) ==
  /\ pc[p] = "create_resources"
  /\ \E ok \in Outcomes :
       /\ Fault(ok)
       /\ IF ~ok
          THEN /\ Return(p, ErrRepository)
               /\ UNCHANGED nodes
          ELSE LET t == CreateTotals(loc[p].node, loc[p].req)
               IN /\ nodes' = UpdateResources(loc[p].req.NodeID, t.memory, t.disk, t.cpu)
                  /\ Return(p, ErrNone)
  /\ UNCHANGED << allocations, servers, nextServerId, unassigned, released >>
  /\ UNCHANGED << agent, suspendActive >>
  /\ UNCHANGED << backups, agentVars, idVars >>

(* ------------------------ ServerService.Delete ------------------------ *)
\* serverRepo.GetByID; if server.IsRunning() the kill comes next
DeleteGetServer(p, sid) ==
  /\ pc[p] = "idle"
  /\ \E ok \in Outcomes :
       /\ Fault(ok)
       /\ IF ~ok \/ ~Exists(sid)
          THEN /\ pc' = pc
               /\ loc' = loc
               /\ lastRet' = [op |-> "Delete", err |-> ErrServerNotFound]
          ELSE /\ Goto(p, IF IsRunning(servers[sid]) THEN "delete_kill"
                                                     ELSE "delete_unassign")
               /\ loc' = [loc EXCEPT ![p] = [NoLoc EXCEPT !.op = "Delete", !.sid = sid,
                                                          !.server = servers[sid]]]
               /\ NoReturn
  /\ UNCHANGED << nodes, allocations, servers, nextServerId, unassigned, released >>
  /\ UNCHANGED << agent, suspendActive >>
  /\ UNCHANGED << backups, agentVars, idVars >>

\* nodeClient.KillServer, a failure of which ends the Delete
DeleteKillAborts(p) ==
  /\ pc[p] = "delete_kill"
  /\ \E ok \in NodeOutcomes(loc[p].sid) :
       /\ NodeFault(loc[p].sid, ok)
       /\ IF ok
          THEN /\ agent' = ManagerKillServer(loc[p].sid)
               /\ loc' = [loc EXCEPT ![p].issued = @ \cup {"KillServer"}]
               /\ Goto(p, "delete_unassign")
               /\ NoReturn
          ELSE /\ agent' = agent
               /\ Return(p, ErrRemote)
  /\ UNCHANGED << nodes, allocations, servers, nextServerId, unassigned, released >>
  /\ UNCHANGED suspendActive
  /\ UNCHANGED << backups, agentVars, idVars >>

\* _ = nodeClient.KillServer: the outcome is ignored
DeleteKill(p) ==
  /\ pc[p] = "delete_kill"
  /\ \E ok \in NodeOutcomes(loc[p].sid) :
       /\ NodeFault(loc[p].sid, ok)
       /\ agent' = IF ok THEN ManagerKillServer(loc[p].sid) ELSE agent
       /\ loc' = [loc EXCEPT ![p].issued = @ \cup {"KillServer"},
                             ![p].failed = IF ok THEN @ ELSE @ \cup {"KillServer"}]
  /\ Goto(p, "delete_unassign")
  /\ NoReturn
  /\ UNCHANGED << nodes, allocations, servers, nextServerId, unassigned, released >>
  /\ UNCHANGED suspendActive
  /\ UNCHANGED << backups, agentVars, idVars >>

\* _ = allocationRepo.Unassign(server.AllocationID): the outcome is ignored
DeleteUnassign(p) ==
  /\ pc[p] = "delete_unassign"
  /\ \E ok \in Outcomes :
       /\ Fault(ok)
       /\ IF ok
          THEN /\ allocations' = Unassign(loc[p].server.AllocationID)
               /\ unassigned' = [unassigned EXCEPT ![loc[p].sid] = Bump(@)]
          ELSE UNCHANGED << allocations, unassigned >>
  /\ Goto(p, "delete_getnode")
  /\ NoReturn
  /\ UNCHANGED << nodes, servers, nextServerId, loc, released >>
  /\ UNCHANGED << agent, suspendActive >>
  /\ UNCHANGED << backups, agentVars, idVars >>

\* node, _ := nodeRepo.GetByID(server.NodeID); a nil node skips the update
DeleteGetNode(p) ==
  /\ pc[p] = "delete_getnode"
  /\ \E ok \in Outcomes :
       /\ Fault(ok)
       /\ IF ok /\ loc[p].server.NodeID \in DOMAIN nodes
          THEN /\ Goto(p, "delete_resources")
               /\ loc' = [loc EXCEPT ![p].node = nodes[loc[p].server.NodeID]]
          ELSE /\ Goto(p, "delete_row")
               /\ loc' = loc
  /\ NoReturn
  /\ UNCHANGED << nodes, allocations, servers, nextServerId, unassigned, released >>
  /\ UNCHANGED << agent, suspendActive >>
  /\ UNCHANGED << backups, agentVars, idVars >>

\* The totals Delete writes: the node as just read, minus the server's limits
DeleteTotals(node, server) ==
  [memory |-> node.MemoryAllocated - server.MemoryLimit,
   disk |-> node.DiskAllocated - server.DiskLimit,
   cpu |-> node.CPUAllocated - server.CPULimit]

\* _ = nodeRepo.UpdateResources(node.*Allocated - server.*Limit)
DeleteUpdateResources(p) ==
  /\ pc[p] = "delete_resources"
  /\ \E ok \in Outcomes :
       /\ Fault(ok)
       /\ IF ok
          THEN LET t == DeleteTotals(loc[p].node, loc[p].server)
               IN /\ nodes' = UpdateResources(loc[p].server.NodeID,
                                              t.memory, t.disk, t.cpu)
                  /\ released' = [released EXCEPT ![loc[p].sid] = Bump(@)]
          ELSE UNCHANGED << nodes, released >>
  /\ Goto(p, "delete_row")
  /\ NoReturn
  /\ UNCHANGED << allocations, servers, nextServerId, loc, unassigned >>
  /\ UNCHANGED << agent, suspendActive >>
  /\ UNCHANGED << backups, agentVars, idVars >>

\* serverRepo.Delete; its error is the only one Delete returns
DeleteRow(p) ==
  /\ pc[p] = "delete_row"
  /\ \E ok \in Outcomes :
       /\ Fault(ok)
       /\ IF ok
          THEN /\ servers' = RemoveServer(loc[p].sid)
               /\ Return(p, ErrNone)
          ELSE /\ servers' = servers
               /\ Return(p, ErrRepository)
  /\ UNCHANGED << nodes, allocations, nextServerId, unassigned, released >>
  /\ UNCHANGED << agent, suspendActive >>
  /\ UNCHANGED << backups, agentVars, idVars >>

(* ------------------------- ServerService.Start ------------------------ *)
\* serverRepo.GetByID, then the suspended and already-running checks
StartGetServer(p, sid) ==
  /\ pc[p] = "idle"
  /\ \E ok \in Outcomes :
       /\ Fault(ok)
       /\ IF ~ok \/ ~Exists(sid)
          THEN /\ lastRet' = [op |-> "Start", err |-> ErrServerNotFound]
               /\ UNCHANGED << pc, loc >>
          ELSE IF servers[sid].Suspended
          THEN /\ lastRet' = [op |-> "Start", err |-> ErrServerSuspended]
               /\ UNCHANGED << pc, loc >>
          ELSE IF IsRunning(servers[sid])
          THEN /\ lastRet' = [op |-> "Start", err |-> ErrServerAlreadyRunning]
               /\ UNCHANGED << pc, loc >>
          ELSE /\ Goto(p, "start_status")
               /\ loc' = [loc EXCEPT ![p] = [NoLoc EXCEPT !.op = "Start", !.sid = sid,
                                                          !.server = servers[sid]]]
               /\ NoReturn
  /\ UNCHANGED << nodes, allocations, servers, nextServerId, unassigned, released >>
  /\ UNCHANGED << agent, suspendActive >>
  /\ UNCHANGED << backups, agentVars, idVars >>

\* serverRepo.UpdateStatus(serverID, starting)
StartUpdateStatus(p) ==
  /\ pc[p] = "start_status"
  /\ \E ok \in Outcomes :
       /\ Fault(ok)
       /\ IF ok
          THEN /\ servers' = UpdateStatus(loc[p].sid, ServerStatusStarting)
               /\ Goto(p, "start_call")
               /\ UNCHANGED loc
               /\ NoReturn
          ELSE /\ servers' = servers
               /\ Return(p, ErrRepository)
  /\ UNCHANGED << nodes, allocations, nextServerId, unassigned, released >>
  /\ UNCHANGED << agent, suspendActive >>
  /\ UNCHANGED << backups, agentVars, idVars >>

\* nodeClient.StartServer(server.NodeID, serverID)
StartCallNode(p) ==
  /\ pc[p] = "start_call"
  /\ \E ok \in NodeOutcomes(loc[p].sid) :
       /\ NodeFault(loc[p].sid, ok)
       /\ agent' = IF ok THEN ManagerStartServer(loc[p].sid) ELSE agent
       /\ Goto(p, IF ok THEN "start_update" ELSE "start_error")
  /\ loc' = [loc EXCEPT ![p].issued = @ \cup {"StartServer"}]
  /\ NoReturn
  /\ UNCHANGED << nodes, allocations, servers, nextServerId, unassigned, released >>
  /\ UNCHANGED suspendActive
  /\ UNCHANGED << backups, agentVars, idVars >>

\* _ = serverRepo.UpdateStatus(serverID, error); the start failure is returned
StartSetError(p) ==
  /\ pc[p] = "start_error"
  /\ \E ok \in RecordOutcomes :
       /\ Fault(ok)
       /\ servers' = IF ok THEN UpdateStatus(loc[p].sid, ServerStatusError) ELSE servers
  /\ Return(p, ErrRemote)
  /\ UNCHANGED << nodes, allocations, nextServerId, unassigned, released >>
  /\ UNCHANGED << agent, suspendActive >>
  /\ UNCHANGED << backups, agentVars, idVars >>

\* server.LastStartedAt = &now; _ = serverRepo.Update(server); return nil
StartUpdateServer(p) ==
  /\ pc[p] = "start_update"
  /\ \E ok \in Outcomes :
       /\ Fault(ok)
       /\ servers' = IF ok
                     THEN UpdateServer([loc[p].server EXCEPT !.LastStartedAt = TRUE])
                     ELSE servers
  /\ Return(p, ErrNone)
  /\ UNCHANGED << nodes, allocations, nextServerId, unassigned, released >>
  /\ UNCHANGED << agent, suspendActive >>
  /\ UNCHANGED << backups, agentVars, idVars >>

(* ------------------ ServerService.Suspend / Unsuspend ----------------- *)
\* serverRepo.GetByID; a running server is stopped first
SuspendGetServer(p, sid) ==
  /\ pc[p] = "idle"
  /\ \E ok \in Outcomes :
       /\ Fault(ok)
       /\ IF ~ok \/ ~Exists(sid)
          THEN /\ lastRet' = [op |-> "Suspend", err |-> ErrServerNotFound]
               /\ UNCHANGED << pc, loc >>
          ELSE /\ Goto(p, IF IsRunning(servers[sid]) THEN "suspend_stop"
                                                     ELSE "suspend_mark")
               /\ loc' = [loc EXCEPT ![p] = [NoLoc EXCEPT !.op = "Suspend", !.sid = sid]]
               /\ NoReturn
  /\ UNCHANGED << nodes, allocations, servers, nextServerId, unassigned, released >>
  /\ UNCHANGED << agent, suspendActive >>
  /\ UNCHANGED << backups, agentVars, idVars >>

\* _ = nodeClient.StopServer: the outcome is ignored
SuspendStop(p) ==
  /\ pc[p] = "suspend_stop"
  /\ \E ok \in NodeOutcomes(loc[p].sid) :
       /\ NodeFault(loc[p].sid, ok)
       /\ agent' = IF ok THEN ManagerStopServer(loc[p].sid) ELSE agent
  /\ Goto(p, "suspend_mark")
  /\ loc' = [loc EXCEPT ![p].issued = @ \cup {"StopServer"}]
  /\ NoReturn
  /\ UNCHANGED << nodes, allocations, servers, nextServerId, unassigned, released >>
  /\ UNCHANGED suspendActive
  /\ UNCHANGED << backups, agentVars, idVars >>

\* serverRepo.Suspend(serverID, reason)
SuspendMark(p) ==
  /\ pc[p] = "suspend_mark"
  /\ \E ok \in Outcomes :
       /\ Fault(ok)
       /\ IF ok
          THEN /\ servers' = SuspendServer(loc[p].sid)
               /\ suspendActive' = [suspendActive EXCEPT ![loc[p].sid] = TRUE]
               /\ Return(p, ErrNone)
          ELSE /\ servers' = servers
               /\ suspendActive' = suspendActive
               /\ Return(p, ErrRepository)
  /\ UNCHANGED << nodes, allocations, nextServerId, unassigned, released >>
  /\ UNCHANGED agent
  /\ UNCHANGED << backups, agentVars, idVars >>

\* ServerService.Unsuspend: serverRepo.Unsuspend(serverID)
Unsuspend(p, sid) ==
  /\ pc[p] = "idle"
  /\ \E ok \in Outcomes :
       /\ Fault(ok)
       /\ IF ok
          THEN /\ servers' = UnsuspendServer(sid)
               /\ suspendActive' = [suspendActive EXCEPT ![sid] = FALSE]
               /\ lastRet' = [op |-> "Unsuspend", err |-> ErrNone]
          ELSE /\ servers' = servers
               /\ suspendActive' = suspendActive
               /\ lastRet' = [op |-> "Unsuspend", err |-> ErrRepository]
  /\ UNCHANGED << nodes, allocations, nextServerId, pc, loc, unassigned,
                  released >>
  /\ UNCHANGED agent
  /\ UNCHANGED << backups, agentVars, idVars >>

(* ------------------------- ServerService.Stop ------------------------- *)
\* serverRepo.GetByID, then the not-running check
StopGetServer(p, sid) ==
  /\ pc[p] = "idle"
  /\ \E ok \in Outcomes :
       /\ Fault(ok)
       /\ IF ~ok \/ ~Exists(sid)
          THEN /\ lastRet' = [op |-> "Stop", err |-> ErrServerNotFound]
               /\ UNCHANGED << pc, loc >>
          ELSE IF ~IsRunning(servers[sid])
          THEN /\ lastRet' = [op |-> "Stop", err |-> ErrServerNotRunning]
               /\ UNCHANGED << pc, loc >>
          ELSE /\ Goto(p, "stop_status")
               /\ loc' = [loc EXCEPT ![p] = [NoLoc EXCEPT !.op = "Stop", !.sid = sid]]
               /\ NoReturn
  /\ UNCHANGED << nodes, allocations, servers, nextServerId, unassigned, released >>
  /\ UNCHANGED << agent, suspendActive >>
  /\ UNCHANGED << backups, agentVars, idVars >>

\* serverRepo.UpdateStatus(serverID, stopping)
StopUpdateStatus(p) ==
  /\ pc[p] = "stop_status"
  /\ \E ok \in Outcomes :
       /\ Fault(ok)
       /\ IF ok
          THEN /\ servers' = UpdateStatus(loc[p].sid, ServerStatusStopping)
               /\ Goto(p, "stop_call")
               /\ UNCHANGED loc
               /\ NoReturn
          ELSE /\ servers' = servers
               /\ Return(p, ErrRepository)
  /\ UNCHANGED << nodes, allocations, nextServerId, unassigned, released >>
  /\ UNCHANGED << agent, suspendActive >>
  /\ UNCHANGED << backups, agentVars, idVars >>

\* nodeClient.StopServer(server.NodeID, serverID); its failure is returned
StopCallNode(p) ==
  /\ pc[p] = "stop_call"
  /\ \E ok \in NodeOutcomes(loc[p].sid) :
       /\ NodeFault(loc[p].sid, ok)
       /\ IF ok
          THEN /\ agent' = ManagerStopServer(loc[p].sid)
               /\ Return(p, ErrNone)
          ELSE /\ agent' = agent
               /\ Return(p, ErrRemote)
  /\ UNCHANGED << nodes, allocations, servers, nextServerId, unassigned, released >>
  /\ UNCHANGED suspendActive
  /\ UNCHANGED << backups, agentVars, idVars >>

(* ------------------------ ServerService.Restart ----------------------- *)
\* serverRepo.GetByID, then the suspended check
RestartGetServer(p, sid) ==
  /\ pc[p] = "idle"
  /\ \E ok \in Outcomes :
       /\ Fault(ok)
       /\ IF ~ok \/ ~Exists(sid)
          THEN /\ lastRet' = [op |-> "Restart", err |-> ErrServerNotFound]
               /\ UNCHANGED << pc, loc >>
          ELSE IF servers[sid].Suspended
          THEN /\ lastRet' = [op |-> "Restart", err |-> ErrServerSuspended]
               /\ UNCHANGED << pc, loc >>
          ELSE /\ Goto(p, "restart_status")
               /\ loc' = [loc EXCEPT ![p] = [NoLoc EXCEPT !.op = "Restart", !.sid = sid]]
               /\ NoReturn
  /\ UNCHANGED << nodes, allocations, servers, nextServerId, unassigned, released >>
  /\ UNCHANGED << agent, suspendActive >>
  /\ UNCHANGED << backups, agentVars, idVars >>

\* serverRepo.UpdateStatus(serverID, restarting)
RestartUpdateStatus(p) ==
  /\ pc[p] = "restart_status"
  /\ \E ok \in Outcomes :
       /\ Fault(ok)
       /\ IF ok
          THEN /\ servers' = UpdateStatus(loc[p].sid, ServerStatusRestarting)
               /\ Goto(p, "restart_call")
               /\ UNCHANGED loc
               /\ NoReturn
          ELSE /\ servers' = servers
               /\ Return(p, ErrRepository)
  /\ UNCHANGED << nodes, allocations, nextServerId, unassigned, released >>
  /\ UNCHANGED << agent, suspendActive >>
  /\ UNCHANGED << backups, agentVars, idVars >>

\* nodeClient.RestartServer(server.NodeID, serverID); its failure is returned
RestartCallNode(p) ==
  /\ pc[p] = "restart_call"
  /\ \E ok \in NodeOutcomes(loc[p].sid) :
       /\ NodeFault(loc[p].sid, ok)
       /\ IF ok
          THEN /\ agent' = ManagerRestartServer(loc[p].sid)
               /\ Return(p, ErrNone)
          ELSE /\ agent' = agent
               /\ Return(p, ErrRemote)
  /\ UNCHANGED << nodes, allocations, servers, nextServerId, unassigned, released >>
  /\ UNCHANGED suspendActive
  /\ UNCHANGED << backups, agentVars, idVars >>

(* ------------------------- ServerService.Kill ------------------------- *)
\* serverRepo.GetByID
KillGetServer(p, sid) ==
  /\ pc[p] = "idle"
  /\ \E ok \in Outcomes :
       /\ Fault(ok)
       /\ IF ~ok \/ ~Exists(sid)
          THEN /\ lastRet' = [op |-> "Kill", err |-> ErrServerNotFound]
               /\ UNCHANGED << pc, loc >>
          ELSE /\ Goto(p, "kill_call")
               /\ loc' = [loc EXCEPT ![p] = [NoLoc EXCEPT !.op = "Kill", !.sid = sid]]
               /\ NoReturn
  /\ UNCHANGED << nodes, allocations, servers, nextServerId, unassigned, released >>
  /\ UNCHANGED << agent, suspendActive >>
  /\ UNCHANGED << backups, agentVars, idVars >>

\* nodeClient.KillServer(server.NodeID, serverID); its failure is returned
KillCallNode(p) ==
  /\ pc[p] = "kill_call"
  /\ \E ok \in NodeOutcomes(loc[p].sid) :
       /\ NodeFault(loc[p].sid, ok)
       /\ IF ok
          THEN /\ agent' = ManagerKillServer(loc[p].sid)
               /\ Goto(p, "kill_status")
               /\ UNCHANGED loc
               /\ NoReturn
          ELSE /\ agent' = agent
               /\ Return(p, ErrRemote)
  /\ UNCHANGED << nodes, allocations, servers, nextServerId, unassigned, released >>
  /\ UNCHANGED suspendActive
  /\ UNCHANGED << backups, agentVars, idVars >>

\* _ = serverRepo.UpdateStatus(serverID, stopped); return nil
KillUpdateStatus(p) ==
  /\ pc[p] = "kill_status"
  /\ \E ok \in Outcomes :
       /\ Fault(ok)
       /\ servers' = IF ok THEN UpdateStatus(loc[p].sid, ServerStatusStopped)
                           ELSE servers
  /\ Return(p, ErrNone)
  /\ UNCHANGED << nodes, allocations, nextServerId, unassigned, released >>
  /\ UNCHANGED << agent, suspendActive >>
  /\ UNCHANGED << backups, agentVars, idVars >>

(* ---------------------- ServerService.SendCommand --------------------- *)
\* serverRepo.GetByID, then the not-running check
SendCommandGetServer(p, sid) ==
  /\ pc[p] = "idle"
  /\ \E ok \in Outcomes :
       /\ Fault(ok)
       /\ IF ~ok \/ ~Exists(sid)
          THEN /\ lastRet' = [op |-> "SendCommand", err |-> ErrServerNotFound]
               /\ UNCHANGED << pc, loc >>
          ELSE IF ~IsRunning(servers[sid])
          THEN /\ lastRet' = [op |-> "SendCommand", err |-> ErrServerNotRunning]
               /\ UNCHANGED << pc, loc >>
          ELSE /\ Goto(p, "command_call")
               /\ loc' = [loc EXCEPT ![p] = [NoLoc EXCEPT !.op = "SendCommand",
                                                          !.sid = sid]]
               /\ NoReturn
  /\ UNCHANGED << nodes, allocations, servers, nextServerId, unassigned, released >>
  /\ UNCHANGED << agent, suspendActive >>
  /\ UNCHANGED << backups, agentVars, idVars >>

\* A failed SendCommand call is recorded as status Error
SendCommandCallNodeMarksError(p) ==
  /\ pc[p] = "command_call"
  /\ \E ok \in NodeOutcomes(loc[p].sid) :
       /\ NodeFault(loc[p].sid, ok)
       /\ servers' = IF ok THEN servers
                     ELSE UpdateStatus(loc[p].sid, ServerStatusError)
       /\ Return(p, IF ok THEN ErrNone ELSE ErrRemote)
  /\ UNCHANGED << nodes, allocations, nextServerId, unassigned, released >>
  /\ UNCHANGED << agent, suspendActive >>
  /\ UNCHANGED << backups, agentVars, idVars >>

\* nodeClient.SendCommand(server.NodeID, serverID, command)
SendCommandCallNode(p) ==
  /\ pc[p] = "command_call"
  /\ \E ok \in NodeOutcomes(loc[p].sid) :
       /\ NodeFault(loc[p].sid, ok)
       /\ Return(p, IF ok THEN ErrNone ELSE ErrRemote)
  /\ UNCHANGED << nodes, allocations, servers, nextServerId, unassigned, released >>
  /\ UNCHANGED << agent, suspendActive >>
  /\ UNCHANGED << backups, agentVars, idVars >>

(* ----------------------- ServerService.Reinstall ---------------------- *)
\* serverRepo.GetByID; a running server is stopped first
ReinstallGetServer(p, sid) ==
  /\ pc[p] = "idle"
  /\ \E ok \in Outcomes :
       /\ Fault(ok)
       /\ IF ~ok \/ ~Exists(sid)
          THEN /\ lastRet' = [op |-> "Reinstall", err |-> ErrServerNotFound]
               /\ UNCHANGED << pc, loc >>
          ELSE /\ Goto(p, IF IsRunning(servers[sid]) THEN "reinstall_stop"
                                                     ELSE "reinstall_status")
               /\ loc' = [loc EXCEPT ![p] = [NoLoc EXCEPT !.op = "Reinstall",
                                                          !.sid = sid]]
               /\ NoReturn
  /\ UNCHANGED << nodes, allocations, servers, nextServerId, unassigned, released >>
  /\ UNCHANGED << agent, suspendActive >>
  /\ UNCHANGED << backups, agentVars, idVars >>

\* _ = nodeClient.StopServer: the outcome is ignored
ReinstallStop(p) ==
  /\ pc[p] = "reinstall_stop"
  /\ \E ok \in NodeOutcomes(loc[p].sid) :
       /\ NodeFault(loc[p].sid, ok)
       /\ agent' = IF ok THEN ManagerStopServer(loc[p].sid) ELSE agent
  /\ Goto(p, "reinstall_status")
  /\ loc' = [loc EXCEPT ![p].issued = @ \cup {"StopServer"}]
  /\ NoReturn
  /\ UNCHANGED << nodes, allocations, servers, nextServerId, unassigned, released >>
  /\ UNCHANGED suspendActive
  /\ UNCHANGED << backups, agentVars, idVars >>

\* serverRepo.UpdateStatus(serverID, installing)
ReinstallUpdateStatus(p) ==
  /\ pc[p] = "reinstall_status"
  /\ \E ok \in Outcomes :
       /\ Fault(ok)
       /\ IF ok
          THEN /\ servers' = UpdateStatus(loc[p].sid, ServerStatusInstalling)
               /\ Goto(p, "reinstall_call")
               /\ UNCHANGED loc
               /\ NoReturn
          ELSE /\ servers' = servers
               /\ Return(p, ErrRepository)
  /\ UNCHANGED << nodes, allocations, nextServerId, unassigned, released >>
  /\ UNCHANGED << agent, suspendActive >>
  /\ UNCHANGED << backups, agentVars, idVars >>

\* nodeClient.ReinstallServer(server.NodeID, serverID); its failure is returned
ReinstallCallNode(p) ==
  /\ pc[p] = "reinstall_call"
  /\ \E ok \in Outcomes :
       /\ Fault(ok)
       /\ Return(p, IF ok THEN ErrNone ELSE ErrRemote)
  /\ UNCHANGED << nodes, allocations, servers, nextServerId, unassigned, released >>
  /\ UNCHANGED << agent, suspendActive >>
  /\ UNCHANGED << backups, agentVars, idVars >>

(* --------------------- ServerService.CreateBackup --------------------- *)
\* backupRepo.CountByServerID: the Backup rows of the server
CountByServerID(sid) ==
  Cardinality({i \in DOMAIN backups : backups[i].ServerID = sid})

\* backupRepo.UpdateStatus
UpdateBackupStatus(id, status) ==
  IF id \in DOMAIN backups THEN [backups EXCEPT ![id].Status = status] ELSE backups

\* serverRepo.GetByID
BackupGetServer(p, sid) ==
  /\ pc[p] = "idle"
  /\ \E ok \in Outcomes :
       /\ Fault(ok)
       /\ IF ~ok \/ ~Exists(sid)
          THEN /\ lastRet' = [op |-> "CreateBackup", err |-> ErrServerNotFound]
               /\ UNCHANGED << pc, loc >>
          ELSE /\ Goto(p, "backup_count")
               /\ loc' = [loc EXCEPT ![p] = [NoLoc EXCEPT !.op = "CreateBackup",
                                                          !.sid = sid,
                                                          !.server = servers[sid]]]
               /\ NoReturn
  /\ UNCHANGED backups
  /\ UNCHANGED << nodes, allocations, servers, nextServerId, unassigned, released >>
  /\ UNCHANGED << agent, suspendActive, agentVars, idVars >>

\* The count is compared with the limit and a count over the limit is refused
BackupCountOverLimitOnly(p) ==
  /\ pc[p] = "backup_count"
  /\ \E ok \in Outcomes :
       /\ Fault(ok)
       /\ IF ~ok
          THEN Return(p, ErrRepository)
          ELSE IF CountByServerID(loc[p].sid) > loc[p].server.BackupLimit
          THEN Return(p, ErrBackupLimitReached)
          ELSE /\ Goto(p, "backup_insert")
               /\ UNCHANGED loc
               /\ NoReturn
  /\ UNCHANGED backups
  /\ UNCHANGED << nodes, allocations, servers, nextServerId, unassigned, released >>
  /\ UNCHANGED << agent, suspendActive, agentVars, idVars >>

\* backupRepo.CountByServerID, then the limit check
BackupCount(p) ==
  /\ pc[p] = "backup_count"
  /\ \E ok \in Outcomes :
       /\ Fault(ok)
       /\ IF ~ok
          THEN Return(p, ErrRepository)
          ELSE IF CountByServerID(loc[p].sid) >= loc[p].server.BackupLimit
          THEN Return(p, ErrBackupLimitReached)
          ELSE /\ Goto(p, "backup_insert")
               /\ UNCHANGED loc
               /\ NoReturn
  /\ UNCHANGED backups
  /\ UNCHANGED << nodes, allocations, servers, nextServerId, unassigned, released >>
  /\ UNCHANGED << agent, suspendActive, agentVars, idVars >>

\* backupRepo.Create: the row is inserted with status pending
BackupInsert(p) ==
  /\ pc[p] = "backup_insert"
  /\ \E ok \in Outcomes :
       /\ Fault(ok)
       /\ IF ~ok
          THEN /\ backups' = backups
               /\ Return(p, ErrRepository)
          ELSE /\ backups' = Append(backups, [ID |-> Len(backups) + 1,
                                              ServerID |-> loc[p].sid,
                                              Status |-> BackupStatusPending])
               /\ Goto(p, "backup_call")
               /\ loc' = [loc EXCEPT ![p].backup = Len(backups) + 1]
               /\ NoReturn
  /\ UNCHANGED << nodes, allocations, servers, nextServerId, unassigned, released >>
  /\ UNCHANGED << agent, suspendActive, agentVars, idVars >>

\* nodeClient.CreateBackup(server.NodeID, serverID, backup.ID)
BackupCallNode(p) ==
  /\ pc[p] = "backup_call"
  /\ \E ok \in Outcomes :
       /\ Fault(ok)
       /\ IF ok
          THEN Return(p, ErrNone)
          ELSE /\ Goto(p, "backup_failed")
               /\ loc' = [loc EXCEPT ![p].issued = @ \cup {"CreateBackup"}]
               /\ NoReturn
  /\ UNCHANGED backups
  /\ UNCHANGED << nodes, allocations, servers, nextServerId, unassigned, released >>
  /\ UNCHANGED << agent, suspendActive, agentVars, idVars >>

\* _ = backupRepo.UpdateStatus(backup.ID, failed); the failure is returned
BackupSetFailed(p) ==
  /\ pc[p] = "backup_failed"
  /\ \E ok \in RecordOutcomes :
       /\ Fault(ok)
       /\ backups' = IF ok THEN UpdateBackupStatus(loc[p].backup, BackupStatusFailed)
                           ELSE backups
  /\ Return(p, ErrRemote)
  /\ UNCHANGED << nodes, allocations, servers, nextServerId, unassigned, released >>
  /\ UNCHANGED << agent, suspendActive, agentVars, idVars >>

(* ------------------------- NodeService.Delete ------------------------- *)
\* serverRepo.CountByNodeID(id); a node with servers is not deleted
NodeDeleteCount(p, nid) ==
  /\ pc[p] = "idle"
  /\ \E ok \in Outcomes :
       /\ Fault(ok)
       /\ IF ~ok
          THEN /\ lastRet' = [op |-> "NodeDelete", err |-> ErrRepository]
               /\ UNCHANGED << pc, loc >>
          ELSE IF CountByNodeID(nid) > 0
          THEN /\ lastRet' = [op |-> "NodeDelete", err |-> ErrNodeHasServers]
               /\ UNCHANGED << pc, loc >>
          ELSE /\ Goto(p, "nodedelete_row")
               /\ loc' = [loc EXCEPT ![p] =
                            [NoLoc EXCEPT !.op = "NodeDelete",
                                          !.node = [NoNode EXCEPT !.ID = nid]]]
               /\ NoReturn
  /\ UNCHANGED << nodes, allocations, servers, nextServerId, unassigned, released >>
  /\ UNCHANGED << agent, suspendActive >>
  /\ UNCHANGED << backups, agentVars, idVars >>

\* nodeRepo.Delete(id)
NodeDeleteRow(p) ==
  /\ pc[p] = "nodedelete_row"
  /\ \E ok \in Outcomes :
       /\ Fault(ok)
       /\ IF ok
          THEN /\ nodes' = RemoveNode(loc[p].node.ID)
               /\ Return(p, ErrNone)
          ELSE /\ nodes' = nodes
               /\ Return(p, ErrRepository)
  /\ UNCHANGED << allocations, servers, nextServerId, unassigned, released >>
  /\ UNCHANGED << agent, suspendActive >>
  /\ UNCHANGED << backups, agentVars, idVars >>

(* ------------------------ Handler.CreateServer ------------------------ *)
\* h.db.Where("id = ?", req.NodeID).First(&node)
HandlerCreateFirst(p, req) ==
  /\ pc[p] = "idle"
  /\ \E ok \in Outcomes :
       /\ Fault(ok)
       /\ IF ~ok \/ req.NodeID \notin DOMAIN nodes
          THEN /\ lastRet' = [op |-> "Handler.CreateServer",
                              err |-> HandlerNodeNotFound]
               /\ UNCHANGED << pc, loc >>
          ELSE /\ Goto(p, "handlercreate_sum")
               /\ loc' = [loc EXCEPT ![p] =
                            [NoLoc EXCEPT !.op = "Handler.CreateServer",
                                          !.req = req,
                                          !.node = nodes[req.NodeID]]]
               /\ NoReturn
  /\ UNCHANGED << nodes, allocations, servers, nextServerId, unassigned, released >>
  /\ UNCHANGED << agent, suspendActive >>
  /\ UNCHANGED << backups, agentVars, idVars >>

\* The SUM query names the columns memory and disk, which the servers table
\* (memory_limit, disk_limit) does not have. The connection is opened with
\* PrepareStmt, so the statement fails to prepare, Row() holds no rows and Scan
\* panics on it; the recover middleware passes the panic to errorHandler,
\* which answers 500. The two checks and h.db.Create below the query never run
HandlerCreateSum(p) ==
  /\ pc[p] = "handlercreate_sum"
  /\ Return(p, HandlerInternalServerError)
  /\ UNCHANGED << nodes, allocations, servers, nextServerId, unassigned, released >>
  /\ UNCHANGED << agent, suspendActive >>
  /\ UNCHANGED << backups, agentVars, idVars, faults >>

(* ------------------------ Handler.UpdateServer ------------------------ *)
\* h.db.Where("id = ?", id).First(&server)
HandlerUpdateFirst(p, sid, req) ==
  /\ pc[p] = "idle"
  /\ \E ok \in Outcomes :
       /\ Fault(ok)
       /\ IF ~ok \/ ~Exists(sid)
          THEN /\ lastRet' = [op |-> "Handler.UpdateServer",
                              err |-> HandlerServerNotFound]
               /\ UNCHANGED << pc, loc >>
          ELSE /\ Goto(p, "handlerupdate_save")
               /\ loc' = [loc EXCEPT ![p] =
                            [NoLoc EXCEPT !.op = "Handler.UpdateServer",
                                          !.sid = sid, !.req = req,
                                          !.server = servers[sid]]]
               /\ NoReturn
  /\ UNCHANGED << nodes, allocations, servers, nextServerId, unassigned, released >>
  /\ UNCHANGED << agent, suspendActive >>
  /\ UNCHANGED << backups, agentVars, idVars >>

\* The limits of the request are put in the row read; h.db.Save(&server)
HandlerUpdateSave(p) ==
  /\ pc[p] = "handlerupdate_save"
  /\ \E ok \in Outcomes :
       /\ Fault(ok)
       /\ IF ok
          THEN /\ servers' = SaveServer([loc[p].server EXCEPT
                                           !.MemoryLimit = loc[p].req.MemoryLimit,
                                           !.DiskLimit = loc[p].req.DiskLimit,
                                           !.CPULimit = loc[p].req.CPULimit])
               /\ Return(p, ErrNone)
          ELSE /\ servers' = servers
               /\ Return(p, HandlerUpdateFailed)
  /\ UNCHANGED << nodes, allocations, nextServerId, unassigned, released >>
  /\ UNCHANGED << agent, suspendActive >>
  /\ UNCHANGED << backups, agentVars, idVars >>

(* ------------------------ Handler.DeleteServer ------------------------ *)
\* h.db.Where("id = ?", id).First(&server); a running server is not deleted
HandlerDeleteFirst(p, sid) ==
  /\ pc[p] = "idle"
  /\ \E ok \in Outcomes :
       /\ Fault(ok)
       /\ IF ~ok \/ ~Exists(sid)
          THEN /\ lastRet' = [op |-> "Handler.DeleteServer",
                              err |-> HandlerServerNotFound]
               /\ UNCHANGED << pc, loc >>
          ELSE IF servers[sid].Status = ServerStatusRunning
          THEN /\ lastRet' = [op |-> "Handler.DeleteServer",
                              err |-> HandlerDeleteRunning]
               /\ UNCHANGED << pc, loc >>
          ELSE /\ Goto(p, "handlerdelete_row")
               /\ loc' = [loc EXCEPT ![p] =
                            [NoLoc EXCEPT !.op = "Handler.DeleteServer",
                                          !.sid = sid, !.server = servers[sid]]]
               /\ NoReturn
  /\ UNCHANGED << nodes, allocations, servers, nextServerId, unassigned, released >>
  /\ UNCHANGED << agent, suspendActive >>
  /\ UNCHANGED << backups, agentVars, idVars >>

\* h.db.Delete(&server); 204
HandlerDeleteRow(p) ==
  /\ pc[p] = "handlerdelete_row"
  /\ \E ok \in Outcomes :
       /\ Fault(ok)
       /\ IF ok
          THEN /\ servers' = RemoveServer(loc[p].sid)
               /\ Return(p, ErrNone)
          ELSE /\ servers' = servers
               /\ Return(p, HandlerDeleteFailed)
  /\ UNCHANGED << nodes, allocations, nextServerId, unassigned, released >>
  /\ UNCHANGED << agent, suspendActive >>
  /\ UNCHANGED << backups, agentVars, idVars >>

(* ------------------------- Handler.StartServer ------------------------ *)
\* h.db.Where("id = ?", id).First(&server), then the already-running check
HandlerStartFirst(p, sid) ==
  /\ pc[p] = "idle"
  /\ \E ok \in Outcomes :
       /\ Fault(ok)
       /\ IF ~ok \/ ~Exists(sid)
          THEN /\ lastRet' = [op |-> "Handler.StartServer",
                              err |-> HandlerServerNotFound]
               /\ UNCHANGED << pc, loc >>
          ELSE IF servers[sid].Status = ServerStatusRunning
          THEN /\ lastRet' = [op |-> "Handler.StartServer",
                              err |-> HandlerAlreadyRunning]
               /\ UNCHANGED << pc, loc >>
          ELSE /\ Goto(p, "handlerstart_save")
               /\ loc' = [loc EXCEPT ![p] =
                            [NoLoc EXCEPT !.op = "Handler.StartServer",
                                          !.sid = sid, !.server = servers[sid]]]
               /\ NoReturn
  /\ UNCHANGED << nodes, allocations, servers, nextServerId, unassigned, released >>
  /\ UNCHANGED << agent, suspendActive >>
  /\ UNCHANGED << backups, agentVars, idVars >>

\* server.Status = starting; h.db.Save(&server), its error dropped; 200
HandlerStartSave(p) ==
  /\ pc[p] = "handlerstart_save"
  /\ \E ok \in Outcomes :
       /\ Fault(ok)
       /\ servers' = IF ok
                     THEN SaveServer([loc[p].server EXCEPT
                                        !.Status = ServerStatusStarting])
                     ELSE servers
  /\ Return(p, ErrNone)
  /\ UNCHANGED << nodes, allocations, nextServerId, unassigned, released >>
  /\ UNCHANGED << agent, suspendActive >>
  /\ UNCHANGED << backups, agentVars, idVars >>

(* ------------------------- Handler.StopServer ------------------------- *)
\* h.db.Where("id = ?", id).First(&server), then the already-stopped check
HandlerStopFirst(p, sid) ==
  /\ pc[p] = "idle"
  /\ \E ok \in Outcomes :
       /\ Fault(ok)
       /\ IF ~ok \/ ~Exists(sid)
          THEN /\ lastRet' = [op |-> "Handler.StopServer",
                              err |-> HandlerServerNotFound]
               /\ UNCHANGED << pc, loc >>
          ELSE IF servers[sid].Status = ServerStatusStopped
          THEN /\ lastRet' = [op |-> "Handler.StopServer",
                              err |-> HandlerAlreadyStopped]
               /\ UNCHANGED << pc, loc >>
          ELSE /\ Goto(p, "handlerstop_save")
               /\ loc' = [loc EXCEPT ![p] =
                            [NoLoc EXCEPT !.op = "Handler.StopServer",
                                          !.sid = sid, !.server = servers[sid]]]
               /\ NoReturn
  /\ UNCHANGED << nodes, allocations, servers, nextServerId, unassigned, released >>
  /\ UNCHANGED << agent, suspendActive >>
  /\ UNCHANGED << backups, agentVars, idVars >>

\* server.Status = stopping; h.db.Save(&server), its error dropped; 200
HandlerStopSave(p) ==
  /\ pc[p] = "handlerstop_save"
  /\ \E ok \in Outcomes :
       /\ Fault(ok)
       /\ servers' = IF ok
                     THEN SaveServer([loc[p].server EXCEPT
                                        !.Status = ServerStatusStopping])
                     ELSE servers
  /\ Return(p, ErrNone)
  /\ UNCHANGED << nodes, allocations, nextServerId, unassigned, released >>
  /\ UNCHANGED << agent, suspendActive >>
  /\ UNCHANGED << backups, agentVars, idVars >>

(* ------------------------ Handler.RestartServer ----------------------- *)
\* h.db.Where("id = ?", id).First(&server); no check follows
HandlerRestartFirst(p, sid) ==
  /\ pc[p] = "idle"
  /\ \E ok \in Outcomes :
       /\ Fault(ok)
       /\ IF ~ok \/ ~Exists(sid)
          THEN /\ lastRet' = [op |-> "Handler.RestartServer",
                              err |-> HandlerServerNotFound]
               /\ UNCHANGED << pc, loc >>
          ELSE /\ Goto(p, "handlerrestart_save")
               /\ loc' = [loc EXCEPT ![p] =
                            [NoLoc EXCEPT !.op = "Handler.RestartServer",
                                          !.sid = sid, !.server = servers[sid]]]
               /\ NoReturn
  /\ UNCHANGED << nodes, allocations, servers, nextServerId, unassigned, released >>
  /\ UNCHANGED << agent, suspendActive >>
  /\ UNCHANGED << backups, agentVars, idVars >>

\* server.Status = restarting; h.db.Save(&server), its error dropped; 200
HandlerRestartSave(p) ==
  /\ pc[p] = "handlerrestart_save"
  /\ \E ok \in Outcomes :
       /\ Fault(ok)
       /\ servers' = IF ok
                     THEN SaveServer([loc[p].server EXCEPT
                                        !.Status = ServerStatusRestarting])
                     ELSE servers
  /\ Return(p, ErrNone)
  /\ UNCHANGED << nodes, allocations, nextServerId, unassigned, released >>
  /\ UNCHANGED << agent, suspendActive >>
  /\ UNCHANGED << backups, agentVars, idVars >>

(* ------------------ NodeService.Create / Update ----------------------- *)
\* CreateNodeRequest, validated by the caller: the FQDN and the capacity of
\* the node of the initial inventory, or another FQDN and less memory
NodeRequests ==
  {[FQDN |-> f, MemoryTotal |-> IF f = NodeFQDN THEN NodeMemoryTotal ELSE 1,
    MemoryOveralloc |-> NodeMemoryOveralloc,
    DiskTotal |-> NodeDiskTotal, DiskOveralloc |-> NodeDiskOveralloc,
    CPUTotal |-> NodeCPUTotal] : f \in FQDNs}

\* The Node row built from a request: nothing allocated
NewNode(id, req) ==
  [ID |-> id, FQDN |-> req.FQDN,
   MemoryTotal |-> req.MemoryTotal, MemoryAllocated |-> 0,
   MemoryOveralloc |-> req.MemoryOveralloc,
   DiskTotal |-> req.DiskTotal, DiskAllocated |-> 0,
   DiskOveralloc |-> req.DiskOveralloc,
   CPUTotal |-> req.CPUTotal, CPUAllocated |-> 0]

\* The node as read, with the fields of the request put in it
WithRequest(node, req) ==
  [node EXCEPT !.FQDN = req.FQDN,
               !.MemoryTotal = req.MemoryTotal,
               !.MemoryOveralloc = req.MemoryOveralloc,
               !.DiskTotal = req.DiskTotal,
               !.DiskOveralloc = req.DiskOveralloc,
               !.CPUTotal = req.CPUTotal]

NodeCreatesInFlight ==
  {q \in Procs : pc[q] \in {"nodecreate_row", "handlernodecreate_fqdn",
                            "handlernodecreate_row"}}

\* locationRepo.GetByID(req.LocationID)
NodeCreateGetLocation(p, req) ==
  /\ pc[p] = "idle"
  /\ nextNodeId + Cardinality(NodeCreatesInFlight) <= MaxNodes
  /\ \E ok \in Outcomes :
       /\ Fault(ok)
       /\ IF ~ok
          THEN /\ lastRet' = [op |-> "NodeCreate", err |-> ErrLocationNotFound]
               /\ UNCHANGED << pc, loc >>
          ELSE /\ Goto(p, "nodecreate_row")
               /\ loc' = [loc EXCEPT ![p] =
                            [NoLoc EXCEPT !.op = "NodeCreate", !.req = req]]
               /\ NoReturn
  /\ UNCHANGED << nodes, allocations, servers, nextServerId, unassigned, released >>
  /\ UNCHANGED << agent, suspendActive >>
  /\ UNCHANGED << backups, agentVars, idVars >>

\* nodeRepo.Create(node)
NodeCreateRow(p) ==
  /\ pc[p] = "nodecreate_row"
  /\ \E ok \in Outcomes :
       /\ Fault(ok)
       /\ IF ok
          THEN /\ nodes' = InsertNode(NewNode(nextNodeId, loc[p].req))
               /\ nextNodeId' = nextNodeId + 1
               /\ Return(p, ErrNone)
          ELSE /\ UNCHANGED << nodes, nextNodeId >>
               /\ Return(p, ErrRepository)
  /\ UNCHANGED << allocations, servers, nextServerId, unassigned, released >>
  /\ UNCHANGED << agent, suspendActive >>
  /\ UNCHANGED << backups, agentVars, nextAllocationId >>

\* nodeRepo.GetByID(id)
NodeUpdateGetNode(p, nid, req) ==
  /\ pc[p] = "idle"
  /\ \E ok \in Outcomes :
       /\ Fault(ok)
       /\ IF ~ok \/ nid \notin DOMAIN nodes
          THEN /\ lastRet' = [op |-> "NodeUpdate", err |-> ErrNodeNotFound]
               /\ UNCHANGED << pc, loc >>
          ELSE /\ Goto(p, "nodeupdate_row")
               /\ loc' = [loc EXCEPT ![p] =
                            [NoLoc EXCEPT !.op = "NodeUpdate", !.req = req,
                                          !.node = nodes[nid]]]
               /\ NoReturn
  /\ UNCHANGED << nodes, allocations, servers, nextServerId, unassigned, released >>
  /\ UNCHANGED << agent, suspendActive >>
  /\ UNCHANGED << backups, agentVars, idVars >>

\* The fields of the request are put in the node read; nodeRepo.Update(node)
NodeUpdateRow(p) ==
  /\ pc[p] = "nodeupdate_row"
  /\ \E ok \in Outcomes :
       /\ Fault(ok)
       /\ IF ok
          THEN /\ nodes' = UpdateNode(WithRequest(loc[p].node, loc[p].req))
               /\ Return(p, ErrNone)
          ELSE /\ nodes' = nodes
               /\ Return(p, ErrRepository)
  /\ UNCHANGED << allocations, servers, nextServerId, unassigned, released >>
  /\ UNCHANGED << agent, suspendActive >>
  /\ UNCHANGED << backups, agentVars, idVars >>

(* --------------------- NodeService.RegenerateToken -------------------- *)
\* nodeRepo.GetByID(id)
RegenerateTokenGetNode(p, nid) ==
  /\ pc[p] = "idle"
  /\ \E ok \in Outcomes :
       /\ Fault(ok)
       /\ IF ~ok \/ nid \notin DOMAIN nodes
          THEN /\ lastRet' = [op |-> "RegenerateToken", err |-> ErrNodeNotFound]
               /\ UNCHANGED << pc, loc >>
          ELSE /\ Goto(p, "regeneratetoken_row")
               /\ loc' = [loc EXCEPT ![p] =
                            [NoLoc EXCEPT !.op = "RegenerateToken",
                                          !.node = nodes[nid]]]
               /\ NoReturn
  /\ UNCHANGED << nodes, allocations, servers, nextServerId, unassigned, released >>
  /\ UNCHANGED << agent, suspendActive >>
  /\ UNCHANGED << backups, agentVars, idVars >>

\* The new token is put in the node read; nodeRepo.Update(node)
RegenerateTokenRow(p) ==
  /\ pc[p] = "regeneratetoken_row"
  /\ \E ok \in Outcomes :
       /\ Fault(ok)
       /\ IF ok
          THEN /\ nodes' = UpdateNode(loc[p].node)
               /\ Return(p, ErrNone)
          ELSE /\ nodes' = nodes
               /\ Return(p, ErrRepository)
  /\ UNCHANGED << allocations, servers, nextServerId, unassigned, released >>
  /\ UNCHANGED << agent, suspendActive >>
  /\ UNCHANGED << backups, agentVars, idVars >>

(* ------------ Handler.CreateNode / UpdateNode / DeleteNode ------------ *)
\* The Node row the handler builds: its CPUTotal is the default of one core
HandlerNewNode(id, req) ==
  [NewNode(id, req) EXCEPT !.CPUTotal = DefaultCPUTotal]

\* A node other than `nid` has the FQDN
FQDNExists(fqdn, nid) ==
  \E n \in DOMAIN nodes : n # nid /\ nodes[n].FQDN = fqdn

\* h.db.Where("id = ?", req.LocationID).First(&location)
HandlerCreateNodeLocation(p, req) ==
  /\ pc[p] = "idle"
  /\ nextNodeId + Cardinality(NodeCreatesInFlight) <= MaxNodes
  /\ \E ok \in Outcomes :
       /\ Fault(ok)
       /\ IF ~ok
          THEN /\ lastRet' = [op |-> "Handler.CreateNode",
                              err |-> HandlerLocationNotFound]
               /\ UNCHANGED << pc, loc >>
          ELSE /\ Goto(p, "handlernodecreate_fqdn")
               /\ loc' = [loc EXCEPT ![p] =
                            [NoLoc EXCEPT !.op = "Handler.CreateNode",
                                          !.req = req]]
               /\ NoReturn
  /\ UNCHANGED << nodes, allocations, servers, nextServerId, unassigned, released >>
  /\ UNCHANGED << agent, suspendActive >>
  /\ UNCHANGED << backups, agentVars, idVars >>

\* h.db.Where("fqdn = ?", req.FQDN).First(&existingNode): a query that fails
\* counts as no such node
HandlerCreateNodeFQDN(p) ==
  /\ pc[p] = "handlernodecreate_fqdn"
  /\ \E ok \in Outcomes :
       /\ Fault(ok)
       /\ IF ok /\ FQDNExists(loc[p].req.FQDN, Nil)
          THEN Return(p, HandlerFQDNExists)
          ELSE /\ Goto(p, "handlernodecreate_row")
               /\ UNCHANGED loc
               /\ NoReturn
  /\ UNCHANGED << nodes, allocations, servers, nextServerId, unassigned, released >>
  /\ UNCHANGED << agent, suspendActive >>
  /\ UNCHANGED << backups, agentVars, idVars >>

\* h.db.Create(&node); 201
HandlerCreateNodeRow(p) ==
  /\ pc[p] = "handlernodecreate_row"
  /\ \E ok \in Outcomes :
       /\ Fault(ok)
       /\ IF ok
          THEN /\ nodes' = InsertNode(HandlerNewNode(nextNodeId, loc[p].req))
               /\ nextNodeId' = nextNodeId + 1
               /\ Return(p, ErrNone)
          ELSE /\ UNCHANGED << nodes, nextNodeId >>
               /\ Return(p, HandlerCreateNodeFailed)
  /\ UNCHANGED << allocations, servers, nextServerId, unassigned, released >>
  /\ UNCHANGED << agent, suspendActive >>
  /\ UNCHANGED << backups, agentVars, nextAllocationId >>

\* h.db.Where("id = ?", id).First(&node)
HandlerUpdateNodeFirst(p, nid, req) ==
  /\ pc[p] = "idle"
  /\ \E ok \in Outcomes :
       /\ Fault(ok)
       /\ IF ~ok \/ nid \notin DOMAIN nodes
          THEN /\ lastRet' = [op |-> "Handler.UpdateNode",
                              err |-> HandlerNodeNotFound]
               /\ UNCHANGED << pc, loc >>
          ELSE /\ Goto(p, "handlernodeupdate_location")
               /\ loc' = [loc EXCEPT ![p] =
                            [NoLoc EXCEPT !.op = "Handler.UpdateNode",
                                          !.req = req, !.node = nodes[nid]]]
               /\ NoReturn
  /\ UNCHANGED << nodes, allocations, servers, nextServerId, unassigned, released >>
  /\ UNCHANGED << agent, suspendActive >>
  /\ UNCHANGED << backups, agentVars, idVars >>

\* h.db.Where("id = ?", req.LocationID).First(&location)
HandlerUpdateNodeLocation(p) ==
  /\ pc[p] = "handlernodeupdate_location"
  /\ \E ok \in Outcomes :
       /\ Fault(ok)
       /\ IF ~ok
          THEN Return(p, HandlerLocationNotFound)
          ELSE /\ Goto(p, "handlernodeupdate_fqdn")
               /\ UNCHANGED loc
               /\ NoReturn
  /\ UNCHANGED << nodes, allocations, servers, nextServerId, unassigned, released >>
  /\ UNCHANGED << agent, suspendActive >>
  /\ UNCHANGED << backups, agentVars, idVars >>

\* h.db.Where("fqdn = ? AND id != ?", req.FQDN, id).First(&existingNode): a
\* query that fails counts as no such node
HandlerUpdateNodeFQDN(p) ==
  /\ pc[p] = "handlernodeupdate_fqdn"
  /\ \E ok \in Outcomes :
       /\ Fault(ok)
       /\ IF ok /\ FQDNExists(loc[p].req.FQDN, loc[p].node.ID)
          THEN Return(p, HandlerFQDNExists)
          ELSE /\ Goto(p, "handlernodeupdate_save")
               /\ UNCHANGED loc
               /\ NoReturn
  /\ UNCHANGED << nodes, allocations, servers, nextServerId, unassigned, released >>
  /\ UNCHANGED << agent, suspendActive >>
  /\ UNCHANGED << backups, agentVars, idVars >>

\* The fields of the request, which has no CPU total, are put in the node
\* read; h.db.Save(&node)
HandlerUpdateNodeSave(p) ==
  /\ pc[p] = "handlernodeupdate_save"
  /\ \E ok \in Outcomes :
       /\ Fault(ok)
       /\ IF ok
          THEN /\ nodes' = SaveNode([WithRequest(loc[p].node, loc[p].req)
                                       EXCEPT !.CPUTotal = loc[p].node.CPUTotal])
               /\ Return(p, ErrNone)
          ELSE /\ nodes' = nodes
               /\ Return(p, HandlerUpdateNodeFailed)
  /\ UNCHANGED << allocations, servers, nextServerId, unassigned, released >>
  /\ UNCHANGED << agent, suspendActive >>
  /\ UNCHANGED << backups, agentVars, idVars >>

\* h.db.Where("id = ?", id).First(&node)
HandlerDeleteNodeFirst(p, nid) ==
  /\ pc[p] = "idle"
  /\ \E ok \in Outcomes :
       /\ Fault(ok)
       /\ IF ~ok \/ nid \notin DOMAIN nodes
          THEN /\ lastRet' = [op |-> "Handler.DeleteNode",
                              err |-> HandlerNodeNotFound]
               /\ UNCHANGED << pc, loc >>
          ELSE /\ Goto(p, "handlernodedelete_count")
               /\ loc' = [loc EXCEPT ![p] =
                            [NoLoc EXCEPT !.op = "Handler.DeleteNode",
                                          !.node = nodes[nid]]]
               /\ NoReturn
  /\ UNCHANGED << nodes, allocations, servers, nextServerId, unassigned, released >>
  /\ UNCHANGED << agent, suspendActive >>
  /\ UNCHANGED << backups, agentVars, idVars >>

\* The count of the servers of the node; a node with servers is not deleted
HandlerDeleteNodeCount(p) ==
  /\ pc[p] = "handlernodedelete_count"
  /\ \E ok \in Outcomes :
       /\ Fault(ok)
       /\ IF ~ok
          THEN Return(p, HandlerCountFailed)
          ELSE IF CountByNodeID(loc[p].node.ID) > 0
          THEN Return(p, HandlerNodeHasServers)
          ELSE /\ Goto(p, "handlernodedelete_row")
               /\ UNCHANGED loc
               /\ NoReturn
  /\ UNCHANGED << nodes, allocations, servers, nextServerId, unassigned, released >>
  /\ UNCHANGED << agent, suspendActive >>
  /\ UNCHANGED << backups, agentVars, idVars >>

\* h.db.Delete(&node); 204
HandlerDeleteNodeRow(p) ==
  /\ pc[p] = "handlernodedelete_row"
  /\ \E ok \in Outcomes :
       /\ Fault(ok)
       /\ IF ok
          THEN /\ nodes' = RemoveNode(loc[p].node.ID)
               /\ Return(p, ErrNone)
          ELSE /\ nodes' = nodes
               /\ Return(p, HandlerDeleteNodeFailed)
  /\ UNCHANGED << allocations, servers, nextServerId, unassigned, released >>
  /\ UNCHANGED << agent, suspendActive >>
  /\ UNCHANGED << backups, agentVars, idVars >>

(* ------------ NodeService.CreateAllocations / DeleteAllocation -------- *)
\* The ports of the initial inventory
Ports == {Port(a) : a \in 1..NumAllocations}

\* CreateAllocationRequest, validated by the caller (PortEnd >= PortStart)
AllocationRequests ==
  {r \in [NodeID : NodeIds, PortStart : Ports, PortEnd : Ports] :
     r.PortStart <= r.PortEnd}

\* Rows the CreateAllocations calls in flight may still insert
RECURSIVE RowsInFlight(_)
RowsInFlight(S) ==
  IF S = {} THEN 0
  ELSE LET q == CHOOSE x \in S : TRUE
       IN (IF pc[q] \in {"allocations_port", "allocations_batch"}
           THEN loc[q].req.PortEnd - loc[q].req.PortStart + 1 ELSE 0)
          + RowsInFlight(S \ {q})

\* nodeRepo.GetByID(req.NodeID)
AllocationsGetNode(p, req) ==
  /\ pc[p] = "idle"
  /\ nextAllocationId + RowsInFlight(Procs) + (req.PortEnd - req.PortStart)
       <= NumAllocations + MaxNewAllocations
  /\ \E ok \in Outcomes :
       /\ Fault(ok)
       /\ IF ~ok \/ req.NodeID \notin DOMAIN nodes
          THEN /\ lastRet' = [op |-> "CreateAllocations", err |-> ErrNodeNotFound]
               /\ UNCHANGED << pc, loc >>
          ELSE /\ Goto(p, "allocations_port")
               /\ loc' = [loc EXCEPT ![p] =
                            [NoLoc EXCEPT !.op = "CreateAllocations", !.req = req,
                                          !.port = req.PortStart]]
               /\ NoReturn
  /\ UNCHANGED << nodes, allocations, servers, nextServerId, unassigned, released >>
  /\ UNCHANGED << agent, suspendActive >>
  /\ UNCHANGED << backups, agentVars, idVars >>

\* allocationRepo.IsPortAvailable for the next port of the range: a port that
\* is taken is skipped; after the last port, an empty batch is an error
AllocationsCheckPort(p) ==
  /\ pc[p] = "allocations_port"
  /\ \E ok \in Outcomes :
       /\ Fault(ok)
       /\ IF ~ok
          THEN Return(p, ErrRepository)
          ELSE LET port == loc[p].port
                   batch == IF IsPortAvailable(loc[p].req.NodeID, port)
                            THEN loc[p].batch \cup {port} ELSE loc[p].batch
               IN IF port < loc[p].req.PortEnd
                  THEN /\ loc' = [loc EXCEPT ![p].port = port + 1,
                                             ![p].batch = batch]
                       /\ pc' = pc
                       /\ NoReturn
                  ELSE IF batch = {}
                  THEN Return(p, ErrNoAvailablePorts)
                  ELSE /\ loc' = [loc EXCEPT ![p].port = port + 1,
                                             ![p].batch = batch]
                       /\ Goto(p, "allocations_batch")
                       /\ NoReturn
  /\ UNCHANGED << nodes, allocations, servers, nextServerId, unassigned, released >>
  /\ UNCHANGED << agent, suspendActive >>
  /\ UNCHANGED << backups, agentVars, idVars >>

\* allocationRepo.CreateBatch(allocations)
AllocationsCreateBatch(p) ==
  /\ pc[p] = "allocations_batch"
  /\ \E ok \in Outcomes :
       /\ Fault(ok)
       /\ IF ok
          THEN /\ allocations' = CreateBatch(allocations, loc[p].req.NodeID,
                                             loc[p].batch, nextAllocationId)
               /\ nextAllocationId' = nextAllocationId + Cardinality(loc[p].batch)
               /\ Return(p, ErrNone)
          ELSE /\ UNCHANGED << allocations, nextAllocationId >>
               /\ Return(p, ErrRepository)
  /\ UNCHANGED << nodes, servers, nextServerId, unassigned, released >>
  /\ UNCHANGED << agent, suspendActive >>
  /\ UNCHANGED << backups, agentVars, nextNodeId >>

\* allocationRepo.GetByID(id); an allocation bound to a server is not deleted
AllocationDeleteGet(p, a) ==
  /\ pc[p] = "idle"
  /\ \E ok \in Outcomes :
       /\ Fault(ok)
       /\ IF ~ok \/ a \notin DOMAIN allocations
          THEN /\ lastRet' = [op |-> "DeleteAllocation",
                              err |-> ErrAllocationNotFound]
               /\ UNCHANGED << pc, loc >>
          ELSE IF allocations[a].ServerID # NoServer
          THEN /\ lastRet' = [op |-> "DeleteAllocation",
                              err |-> ErrAllocationAssigned]
               /\ UNCHANGED << pc, loc >>
          ELSE /\ Goto(p, "allocation_delete")
               /\ loc' = [loc EXCEPT ![p] =
                            [NoLoc EXCEPT !.op = "DeleteAllocation",
                                          !.allocation = a]]
               /\ NoReturn
  /\ UNCHANGED << nodes, allocations, servers, nextServerId, unassigned, released >>
  /\ UNCHANGED << agent, suspendActive >>
  /\ UNCHANGED << backups, agentVars, idVars >>

\* allocationRepo.Delete(id)
AllocationDeleteRow(p) ==
  /\ pc[p] = "allocation_delete"
  /\ \E ok \in Outcomes :
       /\ Fault(ok)
       /\ IF ok
          THEN /\ allocations' = RemoveAllocation(loc[p].allocation)
               /\ Return(p, ErrNone)
          ELSE /\ allocations' = allocations
               /\ Return(p, ErrRepository)
  /\ UNCHANGED << nodes, servers, nextServerId, unassigned, released >>
  /\ UNCHANGED << agent, suspendActive >>
  /\ UNCHANGED << backups, agentVars, idVars >>

(* --------------------------- agent: Manager --------------------------- *)
\* The control plane's tables and requests, which no agent goroutine touches
panelVars == << nodes, allocations, servers, nextServerId, pc, loc, lastRet,
                unassigned, released, suspendActive, backups, idVars >>

\* Allocation of a ServerConfig: the addresses and ports a request may carry
ConfigAllocations == [IP : {"10.0.0.1", "10.0.0.2"}, Port : {Port(1), Port(2)}]

\* Lists of distinct allocations, at most MaxAllocs long
RECURSIVE AllocLists(_)
AllocLists(n) ==
  IF n = 0 THEN {<< >>}
  ELSE LET shorter == AllocLists(n - 1)
       IN shorter \cup {Append(l, a) : l \in {x \in shorter : Len(x) = n - 1},
                                       a \in ConfigAllocations}

DistinctAllocLists ==
  {l \in AllocLists(MaxAllocs) : \A i, j \in DOMAIN l : i # j => l[i] # l[j]}

\* The ServerConfig allocations of a server with the one allocation Port(1)
DefaultAllocs == << [IP |-> "10.0.0.1", Port |-> Port(1)] >>

\* Manager.CreateServer: the PortConfig list, one tcp and one udp per allocation
RECURSIVE PortConfigs(_)
PortConfigs(allocs) ==
  IF allocs = << >> THEN << >>
  ELSE << [HostIP |-> Head(allocs).IP, HostPort |-> Head(allocs).Port,
           ContPort |-> Head(allocs).Port, Protocol |-> "tcp"],
          [HostIP |-> Head(allocs).IP, HostPort |-> Head(allocs).Port,
           ContPort |-> Head(allocs).Port, Protocol |-> "udp"] >>
       \o PortConfigs(Tail(allocs))

\* Client.CreateContainer: portBindings[ContPort/Protocol] = {HostIP, HostPort},
\* a later entry of the list replacing an earlier one under the same key
RECURSIVE PortBindings(_, _)
PortBindings(ports, bindings) ==
  IF ports = << >> THEN bindings
  ELSE LET pt == Head(ports)
           kept == {b \in bindings : ~(b.ContPort = pt.ContPort
                                       /\ b.Protocol = pt.Protocol)}
       IN PortBindings(Tail(ports), kept \cup {pt})

\* Manager.mu can be taken for writing, for reading
CanLock == mu.writer = NoThread /\ mu.readers = {}
CanRLock == mu.writer = NoThread

\* The ServerState a goroutine holds a pointer to is still the registry's entry
SameEntry(sid, cid) == Registered(sid) /\ agent[sid].ContainerID = cid

\* The step taken returns nothing
NoLogged == alog' = NoLog

\* The call of goroutine t returns err
AgentReturn(t, err) ==
  /\ threads' = [threads EXCEPT ![t] = NoCall]
  /\ alog' = [op |-> threads[t].op, sid |-> threads[t].sid, err |-> err,
              warned |-> threads[t].warned, updated |-> threads[t].updated]

AgentGoto(t, label) == threads' = [threads EXCEPT ![t].pc = label]

\* Outcomes of a runtime call about container cid of server sid: the runtime
\* state of a container the registry no longer tracks is not followed
RuntimeOutcomes(sid, cid) == IF SameEntry(sid, cid) THEN Outcomes ELSE {TRUE, FALSE}
RuntimeFault(sid, cid, ok) ==
  faults' = IF ok \/ ~SameEntry(sid, cid) THEN faults ELSE faults + 1

(* ----------------------------- agent: API ----------------------------- *)
ApiRoutes == {"CreateServer", "DeleteServer", "StartServer", "StopServer",
              "RestartServer", "KillServer", "SendCommand"}
WebSocketRoute == "ConsoleWebSocket"
Routes == ApiRoutes \cup {WebSocketRoute}
PowerOps == {"StartServer", "StopServer", "RestartServer", "KillServer"}

\* Server.authMiddleware: the Authorization header (or token query parameter)
\* must be the configured token, bare or after "Bearer "
AuthMiddleware(token) ==
  ~(token # "Bearer " \o config.Token /\ token # config.Token)

\* Server.setupRoutes: the middleware guards the /api group only
Authorized(route, token) == route \in ApiRoutes => AuthMiddleware(token)

\* The first call of the Manager operation a route leads to
FirstCall(route) ==
  CASE route = "CreateServer" -> "create_lock"
    [] route = "DeleteServer" -> "delete_lock"
    [] route \in PowerOps -> "power_lookup"
    [] OTHER -> "command_lookup"

CreatesWaiting == {u \in AgentThreads : threads[u].op = "CreateServer"}

\* A request arrives on a route: rejected with 401 by the middleware, or handed
\* to the handler, which calls the Manager (a console WebSocket message is a
\* SendCommand)
ApiRequest(t, route, token, sid, allocs) ==
  /\ threads[t].pc = "idle"
  /\ route = "CreateServer"
       => nextContainer + Cardinality(CreatesWaiting) <= MaxContainers
  /\ route # "CreateServer" => allocs = << >>
  /\ IF ~Authorized(route, token)
     THEN /\ alog' = [NoLog EXCEPT !.op = route, !.sid = sid, !.err = "Invalid token"]
          /\ threads' = threads
     ELSE /\ threads' = [threads EXCEPT ![t] =
                [NoCall EXCEPT !.pc = FirstCall(route),
                               !.op = IF route = WebSocketRoute THEN "SendCommand"
                                                                ELSE route,
                               !.sid = sid, !.allocs = allocs]]
          /\ NoLogged
  /\ UNCHANGED << panelVars, faults, agent, mu, smu, nextContainer, config >>

(* ------------------------ Manager.CreateServer ------------------------ *)
\* m.mu.Lock()
ManagerCreateLock(t) ==
  /\ threads[t].pc = "create_lock"
  /\ CanLock
  /\ mu' = [mu EXCEPT !.writer = t]
  /\ AgentGoto(t, "create_runtime")
  /\ NoLogged
  /\ UNCHANGED << panelVars, faults, agent, smu, nextContainer, config >>

\* The ServerState of a container just created
CreatedState(cid, allocs) ==
  [NoState EXCEPT !.Status = "created", !.Container = "created",
                  !.ContainerID = cid,
                  !.Bindings = PortBindings(PortConfigs(allocs), {})]

\* Directory, image and container are made under the registry lock; the new
\* ServerState is stored; the deferred m.mu.Unlock()
ManagerCreateRuntime(t) ==
  /\ threads[t].pc = "create_runtime"
  /\ \E ok \in Outcomes :
       /\ Fault(ok)
       /\ IF ok
          THEN /\ agent' = [agent EXCEPT ![threads[t].sid] =
                              CreatedState(nextContainer, threads[t].allocs)]
               /\ nextContainer' = nextContainer + 1
               /\ AgentReturn(t, "nil")
          ELSE /\ UNCHANGED << agent, nextContainer >>
               /\ AgentReturn(t, "failed to create container")
  /\ mu' = [mu EXCEPT !.writer = NoThread]
  /\ UNCHANGED << panelVars, smu, config >>

(* --------- Manager.StartServer / StopServer / Kill / Restart ---------- *)
\* m.mu.RLock(); server, exists := m.servers[serverID]; m.mu.RUnlock()
ManagerPowerLookup(t) ==
  /\ threads[t].pc = "power_lookup"
  /\ CanRLock
  /\ IF Registered(threads[t].sid)
     THEN /\ threads' = [threads EXCEPT ![t].pc = "power_lock",
                                        ![t].cid = agent[threads[t].sid].ContainerID]
          /\ NoLogged
     ELSE AgentReturn(t, "server not found")
  /\ UNCHANGED << panelVars, faults, agent, mu, smu, nextContainer, config >>

\* server.mu.Lock()
ManagerPowerLock(t) ==
  /\ threads[t].pc = "power_lock"
  /\ smu[threads[t].cid] = NoThread
  /\ smu' = [smu EXCEPT ![threads[t].cid] = t]
  /\ AgentGoto(t, "power_runtime")
  /\ NoLogged
  /\ UNCHANGED << panelVars, faults, agent, mu, nextContainer, config >>

\* What the operation writes to the ServerState once the runtime call succeeded
PowerEffect(op, sid) ==
  CASE op = "StartServer" -> ManagerStartServer(sid)
    [] op = "StopServer" -> ManagerStopServer(sid)
    [] op = "KillServer" -> ManagerKillServer(sid)
    [] OTHER -> ManagerRestartServer(sid)

\* The runtime call under the entry's lock, the write of Status and StartedAt,
\* and the deferred server.mu.Unlock()
ManagerPowerRuntime(t) ==
  /\ threads[t].pc = "power_runtime"
  /\ \E ok \in RuntimeOutcomes(threads[t].sid, threads[t].cid) :
       /\ RuntimeFault(threads[t].sid, threads[t].cid, ok)
       /\ IF ok
          THEN /\ agent' = IF SameEntry(threads[t].sid, threads[t].cid)
                           THEN PowerEffect(threads[t].op, threads[t].sid)
                           ELSE agent
               /\ AgentReturn(t, "nil")
          ELSE /\ agent' = agent
               /\ AgentReturn(t, "runtime error")
  /\ smu' = [smu EXCEPT ![threads[t].cid] = NoThread]
  /\ UNCHANGED << panelVars, mu, nextContainer, config >>

(* ------------------------- Manager.SendCommand ------------------------ *)
\* m.mu.RLock(); server, exists := m.servers[serverID]; m.mu.RUnlock()
ManagerCommandLookup(t) ==
  /\ threads[t].pc = "command_lookup"
  /\ CanRLock
  /\ IF Registered(threads[t].sid)
     THEN /\ threads' = [threads EXCEPT ![t].pc = "command_runtime",
                                        ![t].cid = agent[threads[t].sid].ContainerID]
          /\ NoLogged
     ELSE AgentReturn(t, "server not found")
  /\ UNCHANGED << panelVars, faults, agent, mu, smu, nextContainer, config >>

\* m.docker.ExecCommand: no lock is held
ManagerCommandRuntime(t) ==
  /\ threads[t].pc = "command_runtime"
  /\ \E ok \in RuntimeOutcomes(threads[t].sid, threads[t].cid) :
       /\ RuntimeFault(threads[t].sid, threads[t].cid, ok)
       /\ AgentReturn(t, IF ok THEN "nil" ELSE "runtime error")
  /\ UNCHANGED << panelVars, agent, mu, smu, nextContainer, config >>

(* ------------------------ Manager.DeleteServer ------------------------ *)
\* m.mu.Lock(); server, exists := m.servers[serverID]; an unknown id returns
\* an error (the deferred unlock follows at once)
ManagerDeleteLock(t) ==
  /\ threads[t].pc = "delete_lock"
  /\ CanLock
  /\ IF Registered(threads[t].sid)
     THEN /\ mu' = [mu EXCEPT !.writer = t]
          /\ threads' = [threads EXCEPT ![t].pc = "delete_runtime",
                                        ![t].cid = agent[threads[t].sid].ContainerID]
          /\ NoLogged
     ELSE /\ mu' = mu
          /\ AgentReturn(t, "server not found")
  /\ UNCHANGED << panelVars, faults, agent, smu, nextContainer, config >>

\* The entry is evicted only if the container was removed
ManagerDeleteRuntimeKeepsOnFailure(t) ==
  /\ threads[t].pc = "delete_runtime"
  /\ \E ok \in Outcomes :
       /\ Fault(ok)
       /\ IF ok
          THEN /\ agent' = [agent EXCEPT ![threads[t].sid] = NoState]
               /\ AgentReturn(t, "nil")
          ELSE /\ agent' = agent
               /\ AgentReturn(t, "failed to remove container")
  /\ mu' = [mu EXCEPT !.writer = NoThread]
  /\ UNCHANGED << panelVars, smu, nextContainer, config >>

\* m.docker.RemoveContainer under the registry lock, a failure only logged;
\* delete(m.servers, serverID); the deferred m.mu.Unlock(); return nil
ManagerDeleteRuntime(t) ==
  /\ threads[t].pc = "delete_runtime"
  /\ \E ok \in Outcomes :
       /\ Fault(ok)
       /\ threads' = [threads EXCEPT ![t] = NoCall]
       /\ alog' = [op |-> threads[t].op, sid |-> threads[t].sid, err |-> "nil",
                   warned |-> IF ok THEN {} ELSE {threads[t].sid},
                   updated |-> {}]
  /\ agent' = [agent EXCEPT ![threads[t].sid] = NoState]
  /\ mu' = [mu EXCEPT !.writer = NoThread]
  /\ UNCHANGED << panelVars, smu, nextContainer, config >>

(* --------------- Manager.checkAllServers (health loop) ---------------- *)
\* The orders in which a range over the registry may visit the entries of S
RECURSIVE Orders(_)
Orders(S) ==
  IF S = {} THEN {<< >>}
  ELSE UNION {{<< [sid |-> s, cid |-> agent[s].ContainerID] >> \o o :
                 o \in Orders(S \ {s})} : s \in S}

RegisteredServers == {s \in ServerIds : Registered(s)}

\* A tick of the health ticker: the goroutine of the loop, between two passes,
\* starts the next one
HealthTick(t) ==
  /\ threads[t].pc = "idle"
  /\ threads' = [threads EXCEPT ![t] = [NoCall EXCEPT !.pc = "health_snapshot",
                                                      !.op = "checkAllServers"]]
  /\ NoLogged
  /\ UNCHANGED << panelVars, faults, agent, mu, smu, nextContainer, config >>

\* m.mu.RLock(); the entries are copied to a slice; m.mu.RUnlock()
HealthSnapshot(t) ==
  /\ threads[t].pc = "health_snapshot"
  /\ CanRLock
  /\ \E order \in Orders(RegisteredServers) :
       threads' = [threads EXCEPT ![t].pc = "health_inspect", ![t].snapshot = order]
  /\ NoLogged
  /\ UNCHANGED << panelVars, faults, agent, mu, smu, nextContainer, config >>

\* The pass ends at the first inspection that fails
HealthInspectStopsAtFailure(t) ==
  /\ threads[t].pc = "health_inspect"
  /\ IF threads[t].snapshot = << >>
     THEN /\ AgentReturn(t, "nil")
          /\ faults' = faults
     ELSE LET e == Head(threads[t].snapshot)
          IN \E ok \in RuntimeOutcomes(e.sid, e.cid) :
               /\ RuntimeFault(e.sid, e.cid, ok)
               /\ IF ok
                  THEN threads' = [threads EXCEPT
                         ![t].pc = "health_write",
                         ![t].seen = IF SameEntry(e.sid, e.cid)
                                     THEN agent[e.sid].Container ELSE "exited"]
                  ELSE threads' = [threads EXCEPT
                         ![t].snapshot = << >>,
                         ![t].warned = @ \cup {e.sid}]
               /\ NoLogged
  /\ UNCHANGED << panelVars, agent, mu, smu, nextContainer, config >>

\* The next entry of the slice: m.docker.GetContainerStatus(server.ContainerID);
\* on an error a warning is logged and the loop continues; the pass returns
\* when the slice is exhausted
HealthInspect(t) ==
  /\ threads[t].pc = "health_inspect"
  /\ IF threads[t].snapshot = << >>
     THEN /\ AgentReturn(t, "nil")
          /\ faults' = faults
     ELSE LET e == Head(threads[t].snapshot)
          IN \E ok \in RuntimeOutcomes(e.sid, e.cid) :
               /\ RuntimeFault(e.sid, e.cid, ok)
               /\ IF ok
                  THEN threads' = [threads EXCEPT
                         ![t].pc = "health_write",
                         ![t].seen = IF SameEntry(e.sid, e.cid)
                                     THEN agent[e.sid].Container ELSE "exited"]
                  ELSE threads' = [threads EXCEPT
                         ![t].snapshot = Tail(@),
                         ![t].warned = @ \cup {e.sid}]
               /\ NoLogged
  /\ UNCHANGED << panelVars, agent, mu, smu, nextContainer, config >>

\* The status is overwritten and the stats are dropped
WithStatusDropsStats(state, status) ==
  [state EXCEPT !.Status = status, !.Stats = 0]

\* server.Status = status
WithStatus(state, status) == [state EXCEPT !.Status = status]

\* server.mu.Lock(); server.Status = status; server.mu.Unlock()
HealthWrite(t) ==
  /\ threads[t].pc = "health_write"
  /\ LET e == Head(threads[t].snapshot)
     IN /\ smu[e.cid] = NoThread
        /\ agent' = IF SameEntry(e.sid, e.cid)
                    THEN [agent EXCEPT ![e.sid] = WithStatus(@, threads[t].seen)]
                    ELSE agent
        /\ threads' = [threads EXCEPT ![t].pc = "health_inspect",
                                      ![t].snapshot = Tail(@),
                                      ![t].seen = "",
                                      ![t].updated = @ \cup {e.sid}]
  /\ NoLogged
  /\ UNCHANGED << panelVars, faults, mu, smu, nextContainer, config >>

(* -------------- Manager.collectAllMetrics (metrics loop) -------------- *)
\* A tick of the metrics ticker: the goroutine of the loop, between two
\* passes, starts the next one
MetricsTick(t) ==
  /\ threads[t].pc = "idle"
  /\ threads' = [threads EXCEPT ![t] = [NoCall EXCEPT !.pc = "metrics_snapshot",
                                                      !.op = "collectAllMetrics"]]
  /\ NoLogged
  /\ UNCHANGED << panelVars, faults, agent, mu, smu, nextContainer, config >>

\* m.mu.RLock(); the entries are copied to a slice; m.mu.RUnlock()
MetricsSnapshot(t) ==
  /\ threads[t].pc = "metrics_snapshot"
  /\ CanRLock
  /\ \E order \in Orders(RegisteredServers) :
       threads' = [threads EXCEPT ![t].pc = "metrics_collect", ![t].snapshot = order]
  /\ NoLogged
  /\ UNCHANGED << panelVars, faults, agent, mu, smu, nextContainer, config >>

\* The next entry of the slice: m.docker.GetContainerStats(server.ContainerID);
\* on an error the loop continues
MetricsCollect(t) ==
  /\ threads[t].pc = "metrics_collect"
  /\ IF threads[t].snapshot = << >>
     THEN /\ AgentReturn(t, "nil")
          /\ faults' = faults
     ELSE LET e == Head(threads[t].snapshot)
          IN \E ok \in RuntimeOutcomes(e.sid, e.cid) :
               /\ RuntimeFault(e.sid, e.cid, ok)
               /\ IF ok
                  THEN threads' = [threads EXCEPT ![t].pc = "metrics_write"]
                  ELSE threads' = [threads EXCEPT ![t].snapshot = Tail(@)]
               /\ NoLogged
  /\ UNCHANGED << panelVars, agent, mu, smu, nextContainer, config >>

\* The ServerStats collected for an entry: a sample, with the uptime when the
\* entry has a start time
CollectedStats(state) == IF state.StartedAt THEN 2 ELSE 1

\* server.mu.Lock(); server.Stats = &ServerStats{...}; server.mu.Unlock()
MetricsWrite(t) ==
  /\ threads[t].pc = "metrics_write"
  /\ LET e == Head(threads[t].snapshot)
     IN /\ smu[e.cid] = NoThread
        /\ agent' = IF SameEntry(e.sid, e.cid)
                    THEN [agent EXCEPT ![e.sid].Stats = CollectedStats(agent[e.sid])]
                    ELSE agent
        /\ threads' = [threads EXCEPT ![t].pc = "metrics_collect",
                                      ![t].snapshot = Tail(@),
                                      ![t].updated = @ \cup {e.sid}]
  /\ NoLogged
  /\ UNCHANGED << panelVars, faults, mu, smu, nextContainer, config >>

(* --------------------------- specifications --------------------------- *)
CreateStep(p) ==
  \/ \E req \in Requests : CreateGetNode(p, req)
  \/ CreateGetAllocations(p)
  \/ CreateInsertServer(p)
  \/ CreateAssignAllocation(p)
  \/ CreateUpdateResources(p)

DeleteStep(p) ==
  \/ \E sid \in ServerIds : DeleteGetServer(p, sid)
  \/ DeleteGetNode(p)
  \/ DeleteKill(p)
  \/ DeleteUnassign(p)
  \/ DeleteUpdateResources(p)
  \/ DeleteRow(p)

\* UpdateServerRequest: the limits (it names no node)
UpdateRequests == {r \in Requests : r.NodeID = 1}

HandlerCreateStep(p) ==
  \/ \E req \in Requests : HandlerCreateFirst(p, req)
  \/ HandlerCreateSum(p)

HandlerUpdateStep(p) ==
  \/ \E sid \in ServerIds, req \in UpdateRequests : HandlerUpdateFirst(p, sid, req)
  \/ HandlerUpdateSave(p)

HandlerDeleteStep(p) ==
  \/ \E sid \in ServerIds : HandlerDeleteFirst(p, sid)
  \/ HandlerDeleteRow(p)

HandlerStartStep(p) ==
  \/ \E sid \in ServerIds : HandlerStartFirst(p, sid)
  \/ HandlerStartSave(p)

HandlerStopStep(p) ==
  \/ \E sid \in ServerIds : HandlerStopFirst(p, sid)
  \/ HandlerStopSave(p)

HandlerRestartStep(p) ==
  \/ \E sid \in ServerIds : HandlerRestartFirst(p, sid)
  \/ HandlerRestartSave(p)

AllocationStep(p) ==
  \/ \E req \in AllocationRequests : AllocationsGetNode(p, req)
  \/ AllocationsCheckPort(p)
  \/ AllocationsCreateBatch(p)
  \/ \E a \in AllocIds : AllocationDeleteGet(p, a)
  \/ AllocationDeleteRow(p)

\* Create requests of the service and of the handler, and requests that add
\* and remove allocations, handled concurrently
CreateNext ==
  \E p \in Procs : CreateStep(p) \/ HandlerCreateStep(p) \/ AllocationStep(p)

SpecCreate == InitEmpty /\ [][CreateNext]_vars

\* Create and Delete requests, handled one at a time
SeqNext ==
  \E p \in Procs :
    /\ \A q \in Procs \ {p} : pc[q] = "idle"
    /\ (CreateStep(p) \/ DeleteStep(p))

SpecSeq == Init /\ [][SeqNext]_vars

StartStep(p) ==
  \/ \E sid \in ServerIds : StartGetServer(p, sid)
  \/ StartUpdateStatus(p)
  \/ StartCallNode(p)
  \/ StartSetError(p)
  \/ StartUpdateServer(p)

SuspendStep(p) ==
  \/ \E sid \in ServerIds : SuspendGetServer(p, sid)
  \/ SuspendStop(p)
  \/ SuspendMark(p)
  \/ \E sid \in ServerIds : Unsuspend(p, sid)

\* Lifecycle requests on the existing server, handled concurrently
LifecycleNext == \E p \in Procs : StartStep(p) \/ SuspendStep(p) \/ DeleteStep(p)

SpecLifecycle == InitLifecycle /\ [][LifecycleNext]_vars

\* Start requests of the service and of the handler, Suspend and Unsuspend
\* requests and Delete requests of the handler on the existing server, handled
\* concurrently
StartNext ==
  \E p \in Procs :
    \/ StartStep(p) \/ HandlerStartStep(p) \/ SuspendStep(p)
    \/ HandlerDeleteStep(p)

SpecStart == InitLifecycle /\ [][StartNext]_vars

StopStep(p) ==
  \/ \E sid \in ServerIds : StopGetServer(p, sid)
  \/ StopUpdateStatus(p)
  \/ StopCallNode(p)

RestartStep(p) ==
  \/ \E sid \in ServerIds : RestartGetServer(p, sid)
  \/ RestartUpdateStatus(p)
  \/ RestartCallNode(p)

KillStep(p) ==
  \/ \E sid \in ServerIds : KillGetServer(p, sid)
  \/ KillCallNode(p)
  \/ KillUpdateStatus(p)

SendCommandStep(p) ==
  \/ \E sid \in ServerIds : SendCommandGetServer(p, sid)
  \/ SendCommandCallNode(p)

ReinstallStep(p) ==
  \/ \E sid \in ServerIds : ReinstallGetServer(p, sid)
  \/ ReinstallStop(p)
  \/ ReinstallUpdateStatus(p)
  \/ ReinstallCallNode(p)

\* Every operation on the existing server but Delete, of the service and of
\* the handler, handled one at a time
OpsNext ==
  \E p \in Procs :
    /\ \A q \in Procs \ {p} : pc[q] = "idle"
    /\ \/ StartStep(p) \/ StopStep(p) \/ RestartStep(p) \/ KillStep(p)
       \/ SendCommandStep(p) \/ ReinstallStep(p) \/ SuspendStep(p)
       \/ HandlerStartStep(p) \/ HandlerStopStep(p) \/ HandlerRestartStep(p)
       \/ HandlerUpdateStep(p)

SpecOps == InitLifecycle /\ [][OpsNext]_vars

\* Start, Restart, Suspend and Unsuspend requests on the existing server,
\* handled concurrently
SuspendNext == \E p \in Procs : StartStep(p) \/ RestartStep(p) \/ SuspendStep(p)

SpecSuspend == InitLifecycle /\ [][SuspendNext]_vars

BackupStep(p) ==
  \/ \E sid \in ServerIds : BackupGetServer(p, sid)
  \/ BackupCount(p)
  \/ BackupInsert(p)
  \/ BackupCallNode(p)
  \/ BackupSetFailed(p)

\* The inventory holds one stopped server, which has no backup
InitBackup == InitInventory({ServerStatusStopped})

\* CreateBackup requests on the existing server, handled concurrently
BackupNext == \E p \in Procs : BackupStep(p)

SpecBackup == InitBackup /\ [][BackupNext]_vars

\* The calls a Start or Stop in flight still has to make
PowerContinue(p) ==
  \/ StartUpdateStatus(p) \/ StartCallNode(p) \/ StartSetError(p)
  \/ StartUpdateServer(p)
  \/ StopUpdateStatus(p) \/ StopCallNode(p)

\* The Manager calls of goroutine t
ManagerStep(t) ==
  \/ ManagerCreateLock(t) \/ ManagerCreateRuntime(t)
  \/ ManagerPowerLookup(t) \/ ManagerPowerLock(t) \/ ManagerPowerRuntime(t)
  \/ ManagerCommandLookup(t) \/ ManagerCommandRuntime(t)
  \/ ManagerDeleteLock(t) \/ ManagerDeleteRuntime(t)

\* Manager.StartHealthCheck: the health loop, run by goroutine t
HealthStep(t) ==
  HealthTick(t) \/ HealthSnapshot(t) \/ HealthInspect(t) \/ HealthWrite(t)

\* Manager.StartMetricsCollection: the metrics loop, run by goroutine t
MetricsStep(t) ==
  MetricsTick(t) \/ MetricsSnapshot(t) \/ MetricsCollect(t) \/ MetricsWrite(t)

\* Start and Stop requests handled one at a time, and the agent's health loop
HealthNext ==
  \/ \E p \in Procs :
       /\ \A q \in Procs \ {p} : pc[q] = "idle"
       /\ (StartStep(p) \/ StopStep(p))
  \/ HealthStep(HealthThread)

\* A request in flight runs to its return and the health loop keeps ticking;
\* nothing obliges a user to issue a request
SpecHealth ==
  /\ InitLifecycle
  /\ [][HealthNext]_vars
  /\ WF_vars(HealthStep(HealthThread))
  /\ \A p \in Procs : WF_vars(PowerContinue(p))

RequestAllocs(route) == IF route = "CreateServer" THEN {DefaultAllocs} ELSE {<< >>}

\* A request on one of `routes` carrying one of `tokens`, served by goroutine t
ApiStep(t, routes, tokens) ==
  \E route \in routes, token \in tokens, sid \in ServerIds :
    \E allocs \in RequestAllocs(route) :
      ApiRequest(t, route, token, sid, allocs)

ScanRoutes == {"CreateServer", "StartServer", "DeleteServer"}

\* No other goroutine is serving an API request
ServesAlone(t) == \A u \in ApiThreads \ {t} : threads[u].pc = "idle"

\* The two loops, each in its goroutine, beside authenticated CreateServer,
\* StartServer and DeleteServer requests served one at a time, over a
\* registry that tracks one server at the start
ScanNext ==
  \/ HealthStep(HealthThread)
  \/ MetricsStep(MetricsThread)
  \/ \E t \in ApiThreads :
       /\ ServesAlone(t)
       /\ \/ ApiStep(t, ScanRoutes, {NodeToken})
          \/ ManagerCreateLock(t) \/ ManagerCreateRuntime(t)
          \/ ManagerPowerLookup(t) \/ ManagerPowerLock(t) \/ ManagerPowerRuntime(t)
          \/ ManagerDeleteLock(t) \/ ManagerDeleteRuntime(t)

SpecScan == InitInventory({ServerStatusStopped}) /\ [][ScanNext]_vars

\* Authenticated /api requests served concurrently
CallsNext ==
  \E t \in ApiThreads : ApiStep(t, ApiRoutes, {NodeToken}) \/ ManagerStep(t)

SpecCalls ==
  /\ InitEmpty \/ InitInventory({ServerStatusStopped, ServerStatusRunning})
  /\ [][CallsNext]_vars

\* Requests on every route with every token, served one at a time, by an
\* agent whose token is configured or left empty
ApiNext ==
  \E t \in ApiThreads :
    /\ ServesAlone(t)
    /\ (ApiStep(t, Routes, Tokens) \/ ManagerStep(t))

InitApi ==
  /\ InitEmptyTables \/ InitInventoryTables({ServerStatusStopped, ServerStatusRunning})
  /\ InitConfig({NodeToken, ""})

SpecApi == InitApi /\ [][ApiNext]_vars

\* CreateServer requests alone, with every list of allocations
PortsNext ==
  \E t \in ApiThreads :
    \/ \E sid \in ServerIds, allocs \in DistinctAllocLists :
         ApiRequest(t, "CreateServer", NodeToken, sid, allocs)
    \/ ManagerCreateLock(t)
    \/ ManagerCreateRuntime(t)

SpecPorts == InitEmpty /\ [][PortsNext]_vars

\* The agent as a whole
AgentNext ==
  \/ \E t \in ApiThreads : ApiStep(t, Routes, Tokens) \/ ManagerStep(t)
  \/ HealthStep(HealthThread)
  \/ MetricsStep(MetricsThread)

NodeDeleteStep(p) ==
  \/ \E nid \in NodeIds : NodeDeleteCount(p, nid)
  \/ NodeDeleteRow(p)

NodeCreateStep(p) ==
  \/ \E req \in NodeRequests : NodeCreateGetLocation(p, req)
  \/ NodeCreateRow(p)

NodeUpdateStep(p) ==
  \/ \E nid \in NodeIds, req \in NodeRequests : NodeUpdateGetNode(p, nid, req)
  \/ NodeUpdateRow(p)

RegenerateTokenStep(p) ==
  \/ \E nid \in NodeIds : RegenerateTokenGetNode(p, nid)
  \/ RegenerateTokenRow(p)

HandlerCreateNodeStep(p) ==
  \/ \E req \in NodeRequests : HandlerCreateNodeLocation(p, req)
  \/ HandlerCreateNodeFQDN(p)
  \/ HandlerCreateNodeRow(p)

HandlerUpdateNodeStep(p) ==
  \/ \E nid \in NodeIds, req \in NodeRequests : HandlerUpdateNodeFirst(p, nid, req)
  \/ HandlerUpdateNodeLocation(p)
  \/ HandlerUpdateNodeFQDN(p)
  \/ HandlerUpdateNodeSave(p)

HandlerDeleteNodeStep(p) ==
  \/ \E nid \in NodeIds : HandlerDeleteNodeFirst(p, nid)
  \/ HandlerDeleteNodeCount(p)
  \/ HandlerDeleteNodeRow(p)

\* Every request on the nodes table
NodeStep(p) ==
  \/ NodeDeleteStep(p) \/ NodeCreateStep(p) \/ NodeUpdateStep(p)
  \/ RegenerateTokenStep(p)
  \/ HandlerCreateNodeStep(p) \/ HandlerUpdateNodeStep(p)
  \/ HandlerDeleteNodeStep(p)

\* The request handlers that serve the requests on nodes, and those that
\* serve the requests on servers
NodeProcs == {NumProcs}
ServerProcs == Procs \ NodeProcs

\* Create and Delete requests on servers, beside the requests on nodes, over
\* an inventory of one node and one running server
NodesNext ==
  \/ \E p \in ServerProcs : CreateStep(p) \/ DeleteStep(p)
  \/ \E p \in NodeProcs : NodeStep(p)

SpecNodes ==
  /\ InitInventory({ServerStatusRunning})
  /\ [][NodesNext]_vars

\* Create and Delete requests of the service, handled concurrently, over an
\* inventory of one node and one server
ChurnNext == \E p \in Procs : CreateStep(p) \/ DeleteStep(p)

SpecChurn ==
  /\ InitInventory({ServerStatusStopped, ServerStatusRunning})
  /\ [][ChurnNext]_vars

Next ==
  \/ AgentNext
  \/ \E p \in Procs :
       \/ CreateStep(p) \/ DeleteStep(p) \/ StartStep(p) \/ SuspendStep(p)
       \/ StopStep(p) \/ RestartStep(p) \/ KillStep(p) \/ SendCommandStep(p)
       \/ ReinstallStep(p) \/ BackupStep(p)
  \/ \E p \in Procs :
       \/ HandlerCreateStep(p) \/ HandlerUpdateStep(p) \/ HandlerDeleteStep(p)
       \/ HandlerStartStep(p) \/ HandlerStopStep(p) \/ HandlerRestartStep(p)
  \/ \E p \in Procs : NodeStep(p) \/ AllocationStep(p)

Spec == (InitEmpty \/ InitLifecycle) /\ [][Next]_vars

(* ------------------------------- claims ------------------------------- *)
MaxMemory(n) == n.MemoryTotal + ((n.MemoryTotal * n.MemoryOveralloc) \div 100)
MaxDisk(n) == n.DiskTotal + ((n.DiskTotal * n.DiskOveralloc) \div 100)

CreatePcs == {"create_allocs", "create_insert", "create_assign", "create_resources"}

\* C1: with Create and Delete calls executed one at a time, every node keeps
\* memoryAllocated <= memoryTotal + memoryTotal*memoryOveralloc/100 and
\* diskAllocated <= diskTotal + diskTotal*diskOveralloc/100.
C1_CapacityRespected ==
  \A n \in DOMAIN nodes :
    /\ nodes[n].MemoryAllocated <= MaxMemory(nodes[n])
    /\ nodes[n].DiskAllocated <= MaxDisk(nodes[n])

\* A Create has just succeeded and filled the node's memory to its overallocated
\* capacity
C1_Witness ==
  /\ lastRet = [op |-> "Create", err |-> ErrNone]
  /\ nodes[1].MemoryAllocated = MaxMemory(nodes[1])
  /\ Cardinality(DOMAIN servers) = 2

RECURSIVE PendingMemory(_, _)
\* Memory asked for by the Creates of S that passed the capacity check on node n
\* and have not yet written the node's totals
PendingMemory(S, n) ==
  IF S = {} THEN 0
  ELSE LET p == CHOOSE x \in S : TRUE
       IN (IF pc[p] \in CreatePcs /\ loc[p].req.NodeID = n
           THEN loc[p].req.MemoryLimit ELSE 0) + PendingMemory(S \ {p}, n)

\* C2: concurrent Creates on a node never pass the capacity check together with
\* requests that jointly exceed the node's overallocated memory: the memory
\* already allocated plus the memory of every admitted, not yet written
\* reservation fits the capacity.
C2_ReservationsFit ==
  \A n \in DOMAIN nodes :
    nodes[n].MemoryAllocated + PendingMemory(Procs, n) <= MaxMemory(nodes[n])

\* C3: no two existing Server rows reference the same Allocation.
C3_AllocationBoundOnce ==
  \A s1, s2 \in DOMAIN servers :
    s1 # s2 => servers[s1].AllocationID # servers[s2].AllocationID

LifecycleOps == {"Start", "Delete"}

\* C4: for any server, at most one lifecycle operation (Start, Delete, ...) is
\* in flight at a time.
C4_OneLifecycleOpInFlight ==
  \A p, q \in Procs :
    (/\ p # q
     /\ pc[p] # "idle" /\ pc[q] # "idle"
     /\ loc[p].op \in LifecycleOps /\ loc[q].op \in LifecycleOps)
    => loc[p].sid # loc[q].sid

\* A Start call the orchestrator let through: the service has issued
\* StartServer to the node, or the handler is past its already-running check
StartAdmitted(p) ==
  \/ loc[p].op = "Start" /\ "StartServer" \in loc[p].issued
  \/ loc[p].op = "Handler.StartServer" /\ pc[p] = "handlerstart_save"

\* C5: of two Start calls in flight together on a server both found Stopped,
\* at most one is admitted (and issues StartServer to the node).
C5_OneConcurrentStartAdmitted ==
  \A p, q \in Procs :
    (/\ p # q
     /\ loc[p].op \in {"Start", "Handler.StartServer"}
     /\ loc[q].op \in {"Start", "Handler.StartServer"}
     /\ loc[p].sid = loc[q].sid
     /\ loc[p].server.Status = ServerStatusStopped
     /\ loc[q].server.Status = ServerStatusStopped)
    => ~(StartAdmitted(p) /\ StartAdmitted(q))

\* C6: over a server's lifetime, under any interleaving of Delete calls, its
\* allocation is unbound exactly once and the node's totals are decremented by
\* its limits exactly once: never twice and, once the row is gone (in a run
\* where no repository call failed), not zero times.
C6_ReleasedExactlyOnce ==
  \A s \in ServerIds :
    /\ unassigned[s] <= 1
    /\ released[s] <= 1
    /\ (faults = 0 /\ s < nextServerId /\ s \notin DOMAIN servers)
         => (unassigned[s] = 1 /\ released[s] = 1)

\* C7: a Create that returns an error leaves no Server row it inserted and no
\* Allocation bound to such a row.
C7_FailedCreateLeavesNothing ==
  [][\A p \in Procs :
       (/\ pc[p] \in CreatePcs
        /\ pc'[p] = "idle"
        /\ lastRet'.err # ErrNone)
       => (/\ loc[p].sid \notin DOMAIN servers'
           /\ \A a \in DOMAIN allocations' :
                loc[p].sid # NoServer => allocations'[a].ServerID # loc[p].sid)]_vars

\* C8: after any sequence of Create calls every node keeps
\* cpuAllocated <= cpuTotal.
C8_CpuQuotaRespected ==
  \A n \in DOMAIN nodes : nodes[n].CPUAllocated <= nodes[n].CPUTotal

\* C9: a Start that reads the server with status Running, in the service or
\* in the handler, returns the already-running error at once: it is not
\* admitted (so it issues no StartServer call) and no stored row changes.
C9_StartOnRunningRejected ==
  [][\A p \in Procs : \A sid \in DOMAIN servers :
       /\ (/\ StartGetServer(p, sid)
           /\ faults' = faults
           /\ servers[sid].Status = ServerStatusRunning)
          => (/\ lastRet' = [op |-> "Start", err |-> ErrServerAlreadyRunning]
              /\ pc'[p] = "idle"
              /\ loc'[p].issued = {}
              /\ servers' = servers
              /\ nodes' = nodes
              /\ allocations' = allocations)
       /\ (/\ HandlerStartFirst(p, sid)
           /\ faults' = faults
           /\ servers[sid].Status = ServerStatusRunning)
          => (/\ lastRet' = [op |-> "Handler.StartServer",
                             err |-> HandlerAlreadyRunning]
              /\ pc'[p] = "idle"
              /\ agent' = agent
              /\ servers' = servers
              /\ nodes' = nodes
              /\ allocations' = allocations)]_vars

\* A Start on the Running server has returned the already-running error
C9_Witness ==
  /\ lastRet = [op |-> "Start", err |-> ErrServerAlreadyRunning]
  /\ 1 \in DOMAIN servers
  /\ servers[1].Status = ServerStatusRunning
  /\ \A p \in Procs : pc[p] = "idle"

\* C10: a Start that found the server in status Starting issues no StartServer
\* call to the node.
C10_StartOnStartingRejected ==
  \A p \in Procs :
    (loc[p].op = "Start" /\ loc[p].server.Status = ServerStatusStarting)
    => "StartServer" \notin loc[p].issued

\* C11: a Stop that reads the server with status Stopped, in the service or
\* in the handler, returns the not-running (already-stopped) error at once:
\* no StopServer call reaches the node and no stored row changes, so the
\* status stays Stopped.
C11_StopOnStoppedRejected ==
  [][\A p \in Procs : \A sid \in DOMAIN servers :
       /\ (/\ StopGetServer(p, sid)
           /\ faults' = faults
           /\ servers[sid].Status = ServerStatusStopped)
          => (/\ lastRet' = [op |-> "Stop", err |-> ErrServerNotRunning]
              /\ pc'[p] = "idle"
              /\ loc'[p].issued = {}
              /\ agent' = agent
              /\ servers' = servers)
       /\ (/\ HandlerStopFirst(p, sid)
           /\ faults' = faults
           /\ servers[sid].Status = ServerStatusStopped)
          => (/\ lastRet' = [op |-> "Handler.StopServer",
                             err |-> HandlerAlreadyStopped]
              /\ pc'[p] = "idle"
              /\ agent' = agent
              /\ servers' = servers)]_vars

\* A Stop on the Stopped server has returned the not-running error
C11_Witness ==
  /\ lastRet = [op |-> "Stop", err |-> ErrServerNotRunning]
  /\ 1 \in DOMAIN servers
  /\ servers[1].Status = ServerStatusStopped
  /\ \A p \in Procs : pc[p] = "idle"

\* C12: a Start whose StartServer call failed makes no other call to the node,
\* returns the failure to its caller and leaves the server's status Error.
C12_StartFailureSetsError ==
  [][\A p \in Procs :
       /\ (pc[p] = "start_call" /\ pc'[p] # "start_update")
            => (pc'[p] = "start_error" /\ servers' = servers /\ agent' = agent)
       /\ (pc[p] = "start_error" /\ pc'[p] # "start_error")
            => (/\ pc'[p] = "idle"
                /\ lastRet' = [op |-> "Start", err |-> ErrRemote]
                /\ agent' = agent
                /\ loc[p].sid \in DOMAIN servers
                     => servers'[loc[p].sid].Status = ServerStatusError)]_vars

\* C13: a Restart that returns the failure of its RestartServer call leaves the
\* server's status Error.
C13_RestartFailureSetsError ==
  [][\A p \in Procs :
       (/\ pc[p] = "restart_call"
        /\ lastRet' = [op |-> "Restart", err |-> ErrRemote]
        /\ loc[p].sid \in DOMAIN servers)
       => servers'[loc[p].sid].Status = ServerStatusError]_vars

\* C14: a Stop that returns the failure of its StopServer call leaves the
\* server's status Error.
C14_StopFailureSetsError ==
  [][\A p \in Procs :
       (/\ pc[p] = "stop_call"
        /\ lastRet' = [op |-> "Stop", err |-> ErrRemote]
        /\ loc[p].sid \in DOMAIN servers)
       => servers'[loc[p].sid].Status = ServerStatusError]_vars

\* C15: when a Kill on an existing server returns, whatever the outcome of the
\* KillServer call, the server's status is Stopped.
C15_KillEndsStopped ==
  [][\A p \in Procs :
       (/\ loc[p].op = "Kill"
        /\ pc[p] # "idle"
        /\ pc'[p] = "idle"
        /\ faults' = faults \/ pc[p] = "kill_call"
        /\ loc[p].sid \in DOMAIN servers)
       => servers'[loc[p].sid].Status = ServerStatusStopped]_vars

\* C16: while a Suspend has succeeded on a server and no Unsuspend has since,
\* every Start and every Restart that reads the server is rejected with the
\* suspended error and goes no further (no call to the node, no status write).
C16_SuspendedBlocksStart ==
  [][\A p \in Procs : \A sid \in DOMAIN servers :
       (/\ suspendActive[sid]
        /\ StartGetServer(p, sid) \/ RestartGetServer(p, sid)
        /\ faults' = faults)
       => (/\ lastRet'.err = ErrServerSuspended
           /\ pc'[p] = "idle")]_vars

\* The edges of the specified state machine
StateMachineEdges ==
  {<< ServerStatusInstalling, ServerStatusStopped >>,
   << ServerStatusStopped, ServerStatusStarting >>,
   << ServerStatusStarting, ServerStatusStopped >>,
   << ServerStatusStarting, ServerStatusRunning >>,
   << ServerStatusRunning, ServerStatusStopping >>,
   << ServerStatusStopping, ServerStatusRunning >>,
   << ServerStatusStopping, ServerStatusStopped >>,
   << ServerStatusRunning, ServerStatusRestarting >>,
   << ServerStatusStopped, ServerStatusRestarting >>,
   << ServerStatusStarting, ServerStatusRestarting >>,
   << ServerStatusRestarting, ServerStatusRunning >>,
   << ServerStatusStopped, ServerStatusSuspended >>,
   << ServerStatusSuspended, ServerStatusStopped >>}
  \cup {<< from, ServerStatusError >> : from \in ServerStatuses}

\* The status changes an operation may make: an edge of the state machine;
\* Kill may also reach Stopped, and Reinstall Installing, from any status
AllowedEdges(op) ==
  StateMachineEdges
    \cup (IF op = "Kill"
          THEN {<< from, ServerStatusStopped >> : from \in ServerStatuses} ELSE {})
    \cup (IF op = "Reinstall"
          THEN {<< from, ServerStatusInstalling >> : from \in ServerStatuses} ELSE {})

OrchestratorOps == {"Start", "Stop", "Restart", "Kill", "Reinstall"}

\* C17: every change of a server's status made by Start, Stop, Restart, Kill
\* or Reinstall follows an edge of the state machine (so Restarting is entered
\* only from Running, Stopped or Starting, and Stopping only from Running).
C17_StatusFollowsStateMachine ==
  [][\A p \in Procs :
       (/\ pc[p] # "idle"
        /\ loc[p].op \in OrchestratorOps
        /\ loc[p].sid \in DOMAIN servers
        /\ servers'[loc[p].sid].Status # servers[loc[p].sid].Status)
       => << servers[loc[p].sid].Status, servers'[loc[p].sid].Status >>
            \in AllowedEdges(loc[p].op)]_vars

UserOps == {"Start", "Stop", "Restart", "Kill", "SendCommand", "Suspend"}

\* C18: no step of a Start, Stop, Restart, Kill, SendCommand or Suspend moves a
\* server out of status Installing.
C18_InstallingKept ==
  [][\A p \in Procs :
       (/\ pc[p] # "idle"
        /\ loc[p].op \in UserOps
        /\ loc[p].sid \in DOMAIN servers
        /\ servers[loc[p].sid].Status = ServerStatusInstalling)
       => servers'[loc[p].sid].Status = ServerStatusInstalling]_vars

StartSucceeded == lastRet = [op |-> "Start", err |-> ErrNone]
StopSucceeded == lastRet = [op |-> "Stop", err |-> ErrNone]

\* C19: if a Start (a Stop) returned success and no request is issued after
\* it, the stored status of the server eventually is Running (Stopped) for
\* good.
C19_StatusEventuallySettles ==
  /\ <>[]StartSucceeded => <>[](servers[1].Status = ServerStatusRunning)
  /\ <>[]StopSucceeded => <>[](servers[1].Status = ServerStatusStopped)

\* C20: a Delete goes on to its local cleanup when its KillServer call fails,
\* and, its serverRepo.Delete not refused by the store, it then removes the
\* Server row and returns nil.
C20_DeleteSurvivesKillFailure ==
  [][\A p \in Procs :
       /\ (pc[p] = "delete_kill" /\ pc'[p] # "delete_kill")
            => pc'[p] = "delete_unassign"
       /\ (/\ pc[p] = "delete_row"
           /\ "KillServer" \in loc[p].failed
           /\ pc'[p] = "idle"
           /\ faults' = faults)
            => (/\ loc[p].sid \notin DOMAIN servers'
                /\ lastRet' = [op |-> "Delete", err |-> ErrNone])]_vars

\* A Delete has removed the row of the running server and returned nil although
\* its KillServer call failed: the container still runs
C20_Witness ==
  /\ lastRet = [op |-> "Delete", err |-> ErrNone]
  /\ 1 \notin DOMAIN servers
  /\ agent[1].Container = "running"
  /\ faults = 1
  /\ \A p \in Procs : pc[p] = "idle"

\* C21: a Create whose node read succeeds is rejected with the
\* insufficient-resources error exactly when the requested memory exceeds
\* memoryTotal + memoryTotal*overalloc/100 - memoryAllocated or the requested
\* disk exceeds the same for disk (a request equal to what is available goes
\* on); a rejected Create changes no node totals and binds no allocation.
C21_RejectedExactlyWhenExceeding ==
  [][\A p \in Procs : \A req \in Requests :
       (CreateGetNode(p, req) /\ faults' = faults /\ req.NodeID \in DOMAIN nodes)
       => LET n == nodes[req.NodeID]
              exceeds ==
                \/ req.MemoryLimit > MaxMemory(n) - n.MemoryAllocated
                \/ req.DiskLimit > MaxDisk(n) - n.DiskAllocated
          IN /\ (lastRet' = [op |-> "Create", err |-> ErrInsufficientResources])
                  <=> exceeds
             /\ exceeds => (/\ pc'[p] = "idle"
                            /\ nodes' = nodes
                            /\ allocations' = allocations
                            /\ servers' = servers)
             /\ ~exceeds => (pc'[p] = "create_allocs" /\ loc'[p].req = req)]_vars

\* A Create asking for one unit of memory more than the node has left was
\* rejected, the node's totals as they were
C21_Witness ==
  /\ lastRet = [op |-> "Create", err |-> ErrInsufficientResources]
  /\ MaxMemory(nodes[1]) - nodes[1].MemoryAllocated = MaxLimit - 1
  /\ MaxDisk(nodes[1]) - nodes[1].DiskAllocated >= MaxLimit
  /\ \A p \in Procs : pc[p] = "idle"

\* The node's allocations no server is bound to
FreeAllocations(nid) ==
  {a \in DOMAIN allocations :
     allocations[a].NodeID = nid /\ allocations[a].ServerID = NoServer}

\* C22: the allocation a Create binds is, among the allocations of the node
\* that have no bound server when it is bound, the one with the lowest port.
C22_LowestPortBound ==
  [][\A p \in Procs :
       (pc[p] = "create_assign" /\ pc'[p] = "create_resources")
       => LET a == loc[p].allocation
              free == FreeAllocations(loc[p].req.NodeID)
          IN /\ a \in free
             /\ \A x \in free : allocations[a].Port <= allocations[x].Port
             /\ allocations'[a].ServerID = loc[p].sid]_vars

\* C23: a CreateBackup that counts at least backupLimit Backup rows of the
\* server returns the limit-reached error: it inserts no Backup row and makes
\* no call to the node.
C23_BackupLimitRejects ==
  [][\A p \in Procs :
       (/\ pc[p] = "backup_count"
        /\ pc'[p] # "backup_count"
        /\ faults' = faults
        /\ CountByServerID(loc[p].sid) >= loc[p].server.BackupLimit)
       => (/\ lastRet' = [op |-> "CreateBackup", err |-> ErrBackupLimitReached]
           /\ pc'[p] = "idle"
           /\ loc[p].issued = {}
           /\ backups' = backups)]_vars

\* A CreateBackup was refused on the server whose Backup rows number exactly
\* its backupLimit
C23_Witness ==
  /\ lastRet = [op |-> "CreateBackup", err |-> ErrBackupLimitReached]
  /\ 1 \in DOMAIN servers
  /\ CountByServerID(1) = servers[1].BackupLimit
  /\ \A p \in Procs : pc[p] = "idle"

\* C24: a CreateBackup whose node call failed makes no second call, returns
\* the failure and leaves the Backup row it inserted with status failed.
C24_BackupFailureMarksFailed ==
  [][\A p \in Procs :
       /\ (pc[p] = "backup_call" /\ pc'[p] # "backup_call" /\ pc'[p] # "idle")
            => (pc'[p] = "backup_failed" /\ backups' = backups)
       /\ (pc[p] = "backup_failed" /\ pc'[p] # "backup_failed")
            => (/\ pc'[p] = "idle"
                /\ lastRet' = [op |-> "CreateBackup", err |-> ErrRemote]
                /\ Len(backups') = Len(backups)
                /\ backups'[loc[p].backup].Status = BackupStatusFailed)]_vars

\* C25: in a health pass, a failed inspection of one entry does not end the
\* pass: the snapshot holds every registered entry, a failure only logs a
\* warning and moves to the next entry, an inspected entry has its Status
\* overwritten with what was seen, and the pass returns only once the
\* snapshot is exhausted, in whatever order the entries are visited.
C25_InspectErrorDoesNotStopPass ==
  [][\A t \in AgentThreads :
       threads[t].op = "checkAllServers" /\ threads'[t] # threads[t] =>
         /\ threads[t].pc = "health_snapshot" =>
              {threads'[t].snapshot[i].sid : i \in DOMAIN threads'[t].snapshot}
                = RegisteredServers
         /\ threads[t].pc = "health_inspect" /\ threads[t].snapshot # << >> =>
              LET e == Head(threads[t].snapshot)
              IN \/ /\ threads'[t].pc = "health_inspect"
                    /\ threads'[t].snapshot = Tail(threads[t].snapshot)
                    /\ threads'[t].warned = threads[t].warned \cup {e.sid}
                 \/ /\ threads'[t].pc = "health_write"
                    /\ threads'[t].snapshot = threads[t].snapshot
         /\ threads[t].pc = "health_write" =>
              LET e == Head(threads[t].snapshot)
              IN /\ threads'[t].pc = "health_inspect"
                 /\ threads'[t].snapshot = Tail(threads[t].snapshot)
                 /\ e.sid \in threads'[t].updated
                 /\ SameEntry(e.sid, e.cid) =>
                      agent'[e.sid].Status = threads[t].seen
         /\ threads'[t].pc = "idle" => threads[t].snapshot = << >>]_vars

\* A pass returned after it failed to inspect one entry and overwrote the
\* Status of another
C25_Witness ==
  /\ alog.op = "checkAllServers"
  /\ alog.warned # {}
  /\ alog.updated # {}
  /\ alog.warned \cap alog.updated = {}
  /\ \A y \in alog.updated : Registered(y) /\ agent[y].Status = agent[y].Container

\* C26: a step of the health pass changes no field of a ServerState but
\* Status, a step of the metrics pass none but Stats, and neither adds or
\* removes a registry key (so ContainerID is never changed).
C26_PassesWriteOnlyTheirField ==
  [][\A t \in AgentThreads : threads'[t] # threads[t] =>
       /\ threads[t].op = "checkAllServers" =>
            \A s \in ServerIds :
              /\ agent'[s] = [agent[s] EXCEPT !.Status = agent'[s].Status]
              /\ (agent'[s] = NoState) = (agent[s] = NoState)
       /\ threads[t].op = "collectAllMetrics" =>
            \A s \in ServerIds :
              /\ agent'[s] = [agent[s] EXCEPT !.Stats = agent'[s].Stats]
              /\ (agent'[s] = NoState) = (agent[s] = NoState)]_vars

\* A health pass returned after it overwrote the Status of an entry whose
\* Stats a metrics pass had written
C26_Witness ==
  /\ alog.op = "checkAllServers"
  /\ \E s \in alog.updated :
       /\ Registered(s)
       /\ agent[s].Stats # 0
       /\ agent[s].Status = agent[s].Container

\* C27: a CreateServer with n allocations that succeeds gives the runtime
\* 2n port bindings, one tcp and one udp for each allocation, also when two
\* allocations have the same port on different addresses.
C27_TwoBindingsPerAllocation ==
  [][\A t \in AgentThreads :
       threads[t].pc = "create_runtime" /\ threads'[t].pc = "idle"
       /\ alog'.err = "nil" =>
         /\ Len(PortConfigs(threads[t].allocs)) = 2 * Len(threads[t].allocs)
         /\ Cardinality(agent'[threads[t].sid].Bindings)
              = 2 * Len(threads[t].allocs)
         /\ \A i \in DOMAIN threads[t].allocs :
              \A proto \in {"tcp", "udp"} :
                \E b \in agent'[threads[t].sid].Bindings :
                  /\ b.HostIP = threads[t].allocs[i].IP
                  /\ b.HostPort = threads[t].allocs[i].Port
                  /\ b.Protocol = proto]_vars

\* A goroutine is in the runtime I/O of a lifecycle call
InRuntime(t) ==
  threads[t].pc \in {"create_runtime", "power_runtime", "delete_runtime"}

\* The server the next step of goroutine u is about (none for a registry scan)
TargetOf(u) ==
  IF threads[u].pc \in {"health_write", "metrics_write"}
  THEN Head(threads[u].snapshot).sid
  ELSE threads[u].sid

\* The next step of goroutine u needs a lock that goroutine t holds
WaitsFor(u, t) ==
  \/ /\ threads[u].pc \in {"power_lookup", "command_lookup", "health_snapshot",
                           "metrics_snapshot", "create_lock", "delete_lock"}
     /\ mu.writer = t
  \/ /\ threads[u].pc = "power_lock"
     /\ smu[threads[u].cid] = t
  \/ /\ threads[u].pc \in {"health_write", "metrics_write"}
     /\ smu[Head(threads[u].snapshot).cid] = t

\* C28: while a lifecycle call is in its runtime I/O, no registry read, scan
\* step or lifecycle call for a different server waits for a lock it holds.
C28_RuntimeIODoesNotBlockOthers ==
  \A t, u \in AgentThreads :
    t # u /\ InRuntime(t) /\ TargetOf(u) # threads[t].sid => ~WaitsFor(u, t)

\* C29: a request is handed to a Manager operation only if it carries the
\* configured token of the node, on the /api routes and on the console
\* WebSocket alike, and never if it carries no token.
C29_TokenRequired ==
  [][\A t \in AgentThreads, route \in Routes, token \in Tokens, sid \in ServerIds :
       \A allocs \in RequestAllocs(route) :
         ApiRequest(t, route, token, sid, allocs) /\ threads'[t].pc # "idle" =>
           /\ token \in {config.Token, "Bearer " \o config.Token}
           /\ token # ""]_vars

\* C30: a DeleteServer for a registered server takes the registry lock and
\* goes on to remove the container; whether the removal succeeds or fails,
\* the entry is evicted and the call returns nil.
C30_DeleteAlwaysEvicts ==
  [][\A t \in AgentThreads : threads'[t] # threads[t] =>
       /\ threads[t].pc = "delete_lock" /\ Registered(threads[t].sid) =>
            threads'[t].pc = "delete_runtime"
       /\ threads[t].pc = "delete_runtime" =>
            /\ Registered(threads[t].sid)
            /\ agent'[threads[t].sid] = NoState
            /\ threads'[t].pc = "idle"
            /\ alog'.op = "DeleteServer"
            /\ alog'.err = "nil"]_vars

\* A DeleteServer returned nil after the removal of the container failed, and
\* the registry no longer tracks the server
C30_Witness ==
  /\ alog.op = "DeleteServer"
  /\ alog.err = "nil"
  /\ alog.warned = {alog.sid}
  /\ ~Registered(alog.sid)

\* C31: a SendCommand that reads the server with a status other than Running
\* returns the not-running error without calling the node; the node is called
\* only for a server that is Running; and no step of a SendCommand, whatever
\* it returns, changes a stored server row.
C31_SendCommandOnlyWhenRunning ==
  [][/\ \A p \in Procs : \A sid \in DOMAIN servers :
          (/\ SendCommandGetServer(p, sid)
           /\ faults' = faults
           /\ ~IsRunning(servers[sid]))
          => (/\ lastRet' = [op |-> "SendCommand", err |-> ErrServerNotRunning]
              /\ pc'[p] = "idle")
     /\ \A p \in Procs :
          /\ pc'[p] = "command_call" /\ pc[p] # "command_call"
               => servers' = servers /\ IsRunning(servers[loc'[p].sid])
          /\ pc[p] = "command_call"
               => servers' = servers /\ IsRunning(servers[loc[p].sid])
     /\ lastRet'.op = "SendCommand" => servers' = servers]_vars

\* A SendCommand for the Running server was forwarded to the node and has
\* returned success, the server still Running
C31_Witness ==
  /\ lastRet = [op |-> "SendCommand", err |-> ErrNone]
  /\ 1 \in DOMAIN servers
  /\ servers[1].Status = ServerStatusRunning
  /\ \A p \in Procs : pc[p] = "idle"

\* C32: a Suspend that reads the server as running goes to the suspended mark
\* only through a step that issues a KillServer (force-stop) call to the
\* node; the mark is written without such a call only for a server read as
\* not running.
C32_SuspendKillsBeforeMark ==
  [][\A p \in Procs :
       /\ pc[p] = "idle" /\ pc'[p] = "suspend_mark"
            => ~IsRunning(servers[loc'[p].sid])
       /\ pc[p] = "suspend_stop"
            => pc'[p] = "suspend_mark" /\ "KillServer" \in loc'[p].issued
       /\ pc[p] = "suspend_mark" /\ servers' # servers
            => loc[p].issued \in {{}, {"KillServer"}}]_vars

\* C33: every stored server refers to a stored node, whatever the
\* interleaving of NodeService.Delete with ServerService.Create and Delete.
C33_ServersReferToNodes ==
  \A sid \in DOMAIN servers : servers[sid].NodeID \in DOMAIN nodes

\* C34: when a Start returns success, the stored status of the server is
\* Starting and its lastStartedAt is set.
C34_StartSuccessLeavesStarting ==
  [][\A p \in Procs :
       (/\ pc[p] = "start_update"
        /\ lastRet' = [op |-> "Start", err |-> ErrNone]
        /\ loc[p].sid \in DOMAIN servers')
       => (/\ servers'[loc[p].sid].Status = ServerStatusStarting
           /\ servers'[loc[p].sid].LastStartedAt)]_vars

\* The Server rows of node n
ServersOn(n) == {s \in DOMAIN servers : servers[s].NodeID = n}

\* The sum of a limit column over the server rows `rows`
RECURSIVE SumOver(_, _)
SumOver(rows, column) ==
  IF rows = {} THEN 0
  ELSE LET r == CHOOSE x \in rows : TRUE
       IN servers[r][column] + SumOver(rows \ {r}, column)

\* C35: whenever no ServerService operation is in flight, the allocated
\* totals of every node equal the sums of the limits of the server rows on
\* that node, in runs of Create and Delete calls in which no repository or
\* node call has failed.
C35_TotalsEqualSums ==
  (faults = 0 /\ \A p \in Procs : pc[p] = "idle") =>
    \A n \in DOMAIN nodes :
      /\ nodes[n].MemoryAllocated = SumOver(ServersOn(n), "MemoryLimit")
      /\ nodes[n].DiskAllocated = SumOver(ServersOn(n), "DiskLimit")
      /\ nodes[n].CPUAllocated = SumOver(ServersOn(n), "CPULimit")

\* C36: every allocation bound to a server id is bound to a server row that
\* exists.
C36_BoundAllocationsHaveServers ==
  \A a \in DOMAIN allocations :
    allocations[a].ServerID # NoServer => allocations[a].ServerID \in DOMAIN servers

\* C37: a health pass does not take back the Status of a started server: when
\* the entry's Status is running and its container runs, the write of the
\* health pass leaves the Status running.
C37_HealthWriteNotStale ==
  [][\A t \in AgentThreads :
       (/\ threads[t].pc = "health_write"
        /\ threads'[t] # threads[t]
        /\ SameEntry(Head(threads[t].snapshot).sid, Head(threads[t].snapshot).cid)
        /\ agent[Head(threads[t].snapshot).sid].Status = "running"
        /\ agent[Head(threads[t].snapshot).sid].Container = "running")
       => agent'[Head(threads[t].snapshot).sid].Status = "running"]_vars

\* C38: while a StartServer, StopServer, KillServer or RestartServer is in
\* its runtime call under the entry's lock, the registry still tracks the
\* server and no DeleteServer is removing the container of that entry.
C38_DeleteExcludesLifecycle ==
  \A u \in AgentThreads :
    threads[u].pc = "power_runtime" =>
      /\ Registered(threads[u].sid)
      /\ \A t \in AgentThreads :
           ~(threads[t].pc = "delete_runtime" /\ threads[t].cid = threads[u].cid)

\* C39: the number of backup rows of a server never exceeds its backupLimit,
\* whatever the interleaving of CreateBackup calls.
C39_BackupsWithinLimit ==
  \A sid \in DOMAIN servers : CountByServerID(sid) <= servers[sid].BackupLimit

====
